---- MODULE Spec2Model ----
(***************************************************************************)
(* The Intcode virtual machine of src/src/intcode.rs: Memory, the          *)
(* instruction decoder, the CPU (run / step / execute) and the client      *)
(* methods that feed input, drain output and peek or poke memory.          *)
(*                                                                         *)
(* A usize is modelled by an integer: a non-negative integer is itself, a  *)
(* negative integer n stands for the wrapped value 2^64 + n that the cast  *)
(* `n as usize` produces.                                                  *)
(***************************************************************************)
EXTENDS Integers, Sequences, FiniteSets, TLC

\* ------------------------------------------------------------ bounds
\* Longest input or output queue explored.
MaxQueue == 2
\* Most instructions one run() may execute before it is taken not to return.
MaxRunSteps == 8
\* Most write_mem calls a client makes in one behaviour.
MaxPokes == 1
\* Most cells the programs may allocate beyond their image.
MaxExtra == 2
\* Largest address whose content the properties compare.
MaxAddr == 12

\* ------------------------------------------------------------ inputs
\* Values a client sends as input (17 is the value of tests::io_states).
InputVals == {-1, 17}
\* Cells a client pokes or peeks: one inside every image, one beyond every image;
\* the value poked is a halt instruction.
PokeAddrs == {0, 9}
PokeVals == {99}
PeekAddrs == {0, 9}
\* Largest magnitude of a value the explored memory holds.
WordLimit == 30000

\* The echo program of tests::io_states.
Echo == <<3, 0, 4, 0, 99>>
\* A program that reads an input and then writes the halt instruction over
\* the undecodable word ahead of pc.
Patching == <<3, 9, 1101, 90, 9, 6, 55>>
Programs ==
    { Echo,
      <<99>>,
      <<3, 9, 4, 9, 1105, 1, 0>>,
      <<109, 7, 203, 1, 204, 1, 99>>,
      <<103, 0, 99>>,
      <<1101, 1, 2, 7, 4, 7, 99, 0>>,
      <<3, -1, 4, -1, 99>>,
      <<1105, 1, 0>>,
      <<55>>,
      Patching }
\* The programs a client resets a CPU with.
ResetPrograms == {Echo, <<99>>}

\* Programs that exercise one instruction each. Every program starts with an
\* input instruction, so that after run() has suspended on it and a value v was
\* sent, step() executes the instructions that follow one at a time; v lands
\* where the instructions after it use it (as a source, an address, a relative
\* base or a jump target).
InstrPrograms ==
    { <<3, 0, 1, 0, 0, 0, 99>>,
      <<3, 0, 2, 0, 4, 4, 99>>,
      <<3, 0, 1007, 0, 17, 5, 99>>,
      <<3, 0, 108, 17, 0, 0, 99>>,
      <<3, 3, 109, 0, 22201, 1, 2, 3, 204, 3, 99>>,
      <<3, 3, 109, 0, 203, 1, 204, 1, 99>>,
      <<3, 30, 109, 20, 203, 1, 4, 21, 109, -5, 204, 6, 99>>,
      <<3, 1, 1105, 0, 9, 1005, 1, 8, 1006, 1, 0, 106, 0, 1>>,
      <<3, 0, 4, 0, 104, 7, 99>>,
      <<3, 3, 4, 0, 99>>,
      <<3, -1, 4, -1, 99>>,
      <<3, 9, 11101, 5, 6, 0, 99>>,
      <<3, 9, 10002, 0, 0, 0, 99>>,
      <<3, 9, 103, 0, 99>>,
      <<3, 9, 10007, 0, 0, 0, 99>>,
      <<3, 9, 10008, 0, 0, 0, 99>>,
      Echo }

\* Instruction words handed to the decoder: every word of magnitude up to
\* MaxWord, and for each opcode every combination of the three operand digits
\* up to MaxDigit.
MaxWord == 120
MaxDigit == 3
Opcodes == {1, 2, 3, 4, 5, 6, 7, 8, 9, 99}
DecodeWords ==
    ((-MaxWord)..MaxWord) \cup
    { op + 100 * a + 1000 * b + 10000 * c : op \in Opcodes, a, b, c \in 0..MaxDigit }
\* Cells a client peeks or pokes with a negative address.
NegativeAddrs == {-1}

\* ------------------------------------------------------------ state
VARIABLES
    cpu,             \* the CPU struct: pc, mem, input_queue, output_queue, state, relative_base
    fault,           \* "none", or how the last call ended the process (a panic, or a run() that never returns)
    image,           \* history: the program the CPU was constructed or reset with
    written,         \* history: address |-> the value most recently stored there since construction or reset
    halted_by,       \* history: what last set state to Halted: "new", "reset" or "halt"
    pokes,           \* history: how many write_mem calls were made
    old,             \* history: the CPU before the last call
    old_halted_by,   \* history: halted_by before the last call
    call,            \* history: the last call, [op, arg, ret]
    net              \* the locals of the network driver (day23), NoNet when no network is being driven

\* The driver's locals outside day23: there is no network.
NoNet == [part |-> 0]

vars == <<cpu, fault, image, written, halted_by, pokes, old, old_halted_by, call, net>>

\* ------------------------------------------------------------ integer arithmetic
\* Rust's % and / truncate toward zero.
RustRem(a, b) == IF a >= 0 THEN a % b ELSE -((-a) % b)
RustDiv(a, b) == IF a >= 0 THEN a \div b ELSE -((-a) \div b)

RECURSIVE Pow10(_)
Pow10(n) == IF n = 0 THEN 1 ELSE 10 * Pow10(n - 1)

\* usize addition p + k (k > 0) wraps around exactly when p is a wrapped value
\* and the sum reaches 2^64.
UsizeAddOverflows(p, k) == p < 0 /\ p + k >= 0

Abs(x) == IF x < 0 THEN -x ELSE x

\* An i64 whose magnitude is below 2^31 is modelled by that integer. A larger
\* one is modelled by its sign and its magnitude in base-LimbBase limbs, least
\* significant first: [neg |-> BOOLEAN, limbs |-> <<l0, l1, l2, l3, l4>>].
LimbBase == 10000

\* The three limbs of an integer 0 <= n < 2^31.
Limbs(n) == <<n % LimbBase, (n \div LimbBase) % LimbBase, n \div (LimbBase * LimbBase)>>

\* The five limbs of the product of two three-limb magnitudes (schoolbook
\* multiplication with carries; the product is below 2^62 < LimbBase^5).
MulLimbs(x, y) ==
    LET c0 == x[1] * y[1]
        c1 == x[1] * y[2] + x[2] * y[1] + (c0 \div LimbBase)
        c2 == x[1] * y[3] + x[2] * y[2] + x[3] * y[1] + (c1 \div LimbBase)
        c3 == x[2] * y[3] + x[3] * y[2] + (c2 \div LimbBase)
        c4 == x[3] * y[3] + (c3 \div LimbBase)
    IN  <<c0 % LimbBase, c1 % LimbBase, c2 % LimbBase, c3 % LimbBase, c4>>

\* The product a * b has a magnitude below 2^31.
ProductFits(a, b) == a = 0 \/ Abs(b) <= 2147483647 \div Abs(a)

\* arg1 * arg2, were the product computed in 32 bits (saturating at the limit).
I64Mul_saturating_32(a, b) ==
    IF ProductFits(a, b) THEN a * b
    ELSE [neg |-> (a < 0) # (b < 0), limbs |-> Limbs(2147483647) \o <<0, 0>>]

\* arg1 * arg2 on i64, for operands of magnitude below 2^31 (their product is
\* below 2^62, so the multiplication cannot overflow i64).
I64Mul(a, b) ==
    IF ProductFits(a, b) THEN a * b
    ELSE [neg |-> (a < 0) # (b < 0), limbs |-> MulLimbs(Limbs(Abs(a)), Limbs(Abs(b)))]

\* ------------------------------------------------------------ decoder
ParamModeTryFrom(val) ==
    CASE val = 0 -> "Address"
      [] val = 1 -> "Immediate"
      [] val = 2 -> "RelativeAddress"
      [] OTHER   -> "Err"

InstructionErr == [ok |-> FALSE, opcode |-> "None", num_params |-> 0, param_modes |-> <<>>]

\* try_make, were the mode of operand i taken one digit too low (from 10^(1+i)).
try_make_digit_below(opcode, num_params, param_modes_value) ==
    LET param_modes ==
            [i \in 1..num_params |->
                ParamModeTryFrom(RustRem(RustDiv(param_modes_value, Pow10(1 + (i - 1))), 10))]
    IN  IF \E i \in 1..num_params : param_modes[i] = "Err"
        THEN InstructionErr
        ELSE [ok |-> TRUE, opcode |-> opcode, num_params |-> num_params,
              param_modes |-> param_modes]

try_make(opcode, num_params, param_modes_value) ==
    LET param_modes ==
            [i \in 1..num_params |->
                ParamModeTryFrom(RustRem(RustDiv(param_modes_value, Pow10(2 + (i - 1))), 10))]
    IN  IF \E i \in 1..num_params : param_modes[i] = "Err"
        THEN InstructionErr
        ELSE [ok |-> TRUE, opcode |-> opcode, num_params |-> num_params,
              param_modes |-> param_modes]

\* try_from, were the remainder taken non-negative (-99 decoding as 1).
InstructionTryFrom_euclidean(value) ==
    LET m == value % 100
    IN  CASE m = 1  -> try_make("Add", 3, value)
          [] m = 2  -> try_make("Mul", 3, value)
          [] m = 3  -> try_make("Input", 1, value)
          [] m = 4  -> try_make("Output", 1, value)
          [] m = 5  -> try_make("JumpIfTrue", 2, value)
          [] m = 6  -> try_make("JumpIfFalse", 2, value)
          [] m = 7  -> try_make("LessThan", 3, value)
          [] m = 8  -> try_make("Equals", 3, value)
          [] m = 9  -> try_make("ShiftRelativeBase", 1, value)
          [] m = 99 -> try_make("Halt", 0, value)
          [] OTHER  -> InstructionErr

InstructionTryFrom(value) ==
    LET m == RustRem(value, 100)
    IN  CASE m = 1  -> try_make("Add", 3, value)
          [] m = 2  -> try_make("Mul", 3, value)
          [] m = 3  -> try_make("Input", 1, value)
          [] m = 4  -> try_make("Output", 1, value)
          [] m = 5  -> try_make("JumpIfTrue", 2, value)
          [] m = 6  -> try_make("JumpIfFalse", 2, value)
          [] m = 7  -> try_make("LessThan", 3, value)
          [] m = 8  -> try_make("Equals", 3, value)
          [] m = 9  -> try_make("ShiftRelativeBase", 1, value)
          [] m = 99 -> try_make("Halt", 0, value)
          [] OTHER  -> InstructionErr

\* ------------------------------------------------------------ Memory
NoExtra == [a \in {} |-> 0]

MemoryNew(initial_data) == [initial_data |-> initial_data, extra |-> NoExtra]

\* impl Index<usize> for Memory
MemoryIndex(m, addr) ==
    IF addr >= 0 /\ addr < Len(m.initial_data)
    THEN m.initial_data[addr + 1]
    ELSE IF addr \in DOMAIN m.extra THEN m.extra[addr] ELSE 0

\* IndexMut, were every store sent to the extra map (the image never updated).
MemoryIndexMut_extra_only(m, addr, value) == [m EXCEPT !.extra = (addr :> value) @@ m.extra]

\* impl IndexMut<usize> for Memory, followed by the assignment of value
MemoryIndexMut(m, addr, value) ==
    IF addr >= 0 /\ addr < Len(m.initial_data)
    THEN [m EXCEPT !.initial_data[addr + 1] = value]
    ELSE [m EXCEPT !.extra = (addr :> value) @@ m.extra]

\* ------------------------------------------------------------ CPU
CpuNew(program) ==
    [pc |-> 0, mem |-> MemoryNew(program), input_queue |-> <<>>, output_queue |-> <<>>,
     state |-> "Halted", relative_base |-> 0]

\* The result of a call: the CPU it leaves, how it failed if it did, and the
\* stores <<addr, value>> it made to memory, in order.
Done(c, stores) == [cpu |-> c, fault |-> "none", stores |-> stores]
Panic(c, why, stores) == [cpu |-> c, fault |-> why, stores |-> stores]

\* read_param, were every operand taken literally (the addressing mode ignored).
read_param_literal(c, num, instr) == MemoryIndex(c.mem, c.pc + 1 + num)

\* read_param, were a relative operand not offset by the relative base.
read_param_without_base(c, num, instr) ==
    LET param_value == MemoryIndex(c.mem, c.pc + 1 + num)
        param_mode == instr.param_modes[num + 1]
    IN  IF param_mode = "Immediate" THEN param_value ELSE MemoryIndex(c.mem, param_value)

read_param(c, num, instr) ==
    LET param_value == MemoryIndex(c.mem, c.pc + 1 + num)
        param_mode == instr.param_modes[num + 1]
    IN  CASE param_mode = "Immediate"       -> param_value
          [] param_mode = "Address"         -> MemoryIndex(c.mem, param_value)
          [] param_mode = "RelativeAddress" -> MemoryIndex(c.mem, c.relative_base + param_value)

\* write_param, were an immediate destination taken as an address.
write_param_immediate_as_address(c, num, instr, value) ==
    LET param_value == MemoryIndex(c.mem, c.pc + 1 + num)
        param_mode == instr.param_modes[num + 1]
        addr == IF param_mode = "RelativeAddress" THEN c.relative_base + param_value
                ELSE param_value
    IN  Done([c EXCEPT !.mem = MemoryIndexMut(@, addr, value)], <<<<addr, value>>>>)

write_param(c, num, instr, value) ==
    LET param_value == MemoryIndex(c.mem, c.pc + 1 + num)
        param_mode == instr.param_modes[num + 1]
        addr == IF param_mode = "Address" THEN param_value ELSE c.relative_base + param_value
    IN  IF param_mode = "Immediate"
        THEN Panic(c, "panic_param_mode", <<>>)
        ELSE Done([c EXCEPT !.mem = MemoryIndexMut(@, addr, value)], <<<<addr, value>>>>)

\* self.pc += k, after the instruction's effect r. An addition that overflows
\* usize panics in a debug build and wraps in a release build: those steps are
\* left unexplored.
advance_pc(r, k) ==
    IF r.fault # "none" THEN r
    ELSE IF UsizeAddOverflows(r.cpu.pc, k) THEN [r EXCEPT !.fault = "unexplored"]
    ELSE [r EXCEPT !.cpu.pc = @ + k]

\* self.pc + 1 + num overflows usize for one of the operands
operand_overflows(c, instr) ==
    instr.num_params > 0 /\ UsizeAddOverflows(c.pc, instr.num_params)

\* Op::Add, Op::Mul, Op::LessThan, Op::Equals
exec_add(c, instr) ==
    advance_pc(write_param(c, 2, instr, read_param(c, 0, instr) + read_param(c, 1, instr)), 4)

exec_mul(c, instr) ==
    advance_pc(write_param(c, 2, instr,
                           I64Mul(read_param(c, 0, instr), read_param(c, 1, instr))), 4)

\* Op::LessThan, were the comparison <= .
exec_less_than_or_equal(c, instr) ==
    advance_pc(write_param(c, 2, instr,
                           IF read_param(c, 0, instr) <= read_param(c, 1, instr) THEN 1 ELSE 0), 4)

exec_less_than(c, instr) ==
    advance_pc(write_param(c, 2, instr,
                           IF read_param(c, 0, instr) < read_param(c, 1, instr) THEN 1 ELSE 0), 4)

exec_equals(c, instr) ==
    advance_pc(write_param(c, 2, instr,
                           IF read_param(c, 0, instr) = read_param(c, 1, instr) THEN 1 ELSE 0), 4)

\* Op::Input with input, were the status left as it was.
exec_input_some_keeps_state(c, instr) ==
    LET popped == [c EXCEPT !.input_queue = Tail(@)]
    IN  advance_pc(write_param(popped, 0, instr, Head(c.input_queue)), 2)

\* Op::Input with input, were the front value read but not removed.
exec_input_some_peeks(c, instr) ==
    LET moved == advance_pc(write_param(c, 0, instr, Head(c.input_queue)), 2)
    IN  IF moved.fault # "none" THEN moved ELSE [moved EXCEPT !.cpu.state = "Running"]

\* Op::Input with input, were the newest value taken (pop_back).
exec_input_some_takes_newest(c, instr) ==
    LET popped == [c EXCEPT !.input_queue = SubSeq(@, 1, Len(@) - 1)]
        moved == advance_pc(write_param(popped, 0, instr, c.input_queue[Len(c.input_queue)]), 2)
    IN  IF moved.fault # "none" THEN moved ELSE [moved EXCEPT !.cpu.state = "Running"]

\* Op::Input with Some(input) = self.input_queue.pop_front()
exec_input_some(c, instr) ==
    LET popped == [c EXCEPT !.input_queue = Tail(@)]
        moved == advance_pc(write_param(popped, 0, instr, Head(c.input_queue)), 2)
    IN  IF operand_overflows(c, instr) THEN Panic(popped, "unexplored", <<>>)
        ELSE IF moved.fault # "none" THEN moved
        ELSE [moved EXCEPT !.cpu.state = "Running"]

\* Op::Input without input, were pc advanced past the instruction all the same.
exec_input_none_skips(c, instr) == Done([c EXCEPT !.state = "WaitIO", !.pc = @ + 2], <<>>)

\* Op::Input without input, were 0 stored at the destination while waiting.
exec_input_none_stores_zero(c, instr) ==
    LET stored == write_param(c, 0, instr, 0)
    IN  IF stored.fault # "none" THEN stored ELSE [stored EXCEPT !.cpu.state = "WaitIO"]

\* Op::Input with an empty input queue
exec_input_none(c, instr) == Done([c EXCEPT !.state = "WaitIO"], <<>>)

exec_input(c, instr) ==
    IF c.input_queue # <<>> THEN exec_input_some(c, instr) ELSE exec_input_none(c, instr)

\* Op::Output, were pc left on the instruction.
exec_output_stays(c, instr) ==
    Done([c EXCEPT !.output_queue = Append(@, read_param(c, 0, instr))], <<>>)

\* Op::Output, were the CPU to suspend when output is already buffered.
exec_output_suspends(c, instr) ==
    IF c.output_queue = <<>>
    THEN advance_pc(Done([c EXCEPT !.output_queue = Append(@, read_param(c, 0, instr))], <<>>), 2)
    ELSE Done([c EXCEPT !.state = "WaitIO"], <<>>)

\* Op::Output, were an immediate operand not emitted (only addressed cells).
exec_output_addressed_only(c, instr) ==
    IF instr.param_modes[1] = "Immediate"
    THEN advance_pc(Done(c, <<>>), 2)
    ELSE advance_pc(Done([c EXCEPT !.output_queue = Append(@, read_param(c, 0, instr))], <<>>), 2)

exec_output(c, instr) ==
    advance_pc(Done([c EXCEPT !.output_queue = Append(@, read_param(c, 0, instr))], <<>>), 2)

exec_jump_if_true(c, instr) ==
    IF read_param(c, 0, instr) = 0
    THEN advance_pc(Done(c, <<>>), 3)
    ELSE Done([c EXCEPT !.pc = read_param(c, 1, instr)], <<>>)

\* Op::JumpIfFalse, were the two arms of its match exchanged.
exec_jump_if_false_inverted(c, instr) ==
    IF read_param(c, 0, instr) = 0
    THEN advance_pc(Done(c, <<>>), 3)
    ELSE Done([c EXCEPT !.pc = read_param(c, 1, instr)], <<>>)

exec_jump_if_false(c, instr) ==
    IF read_param(c, 0, instr) = 0
    THEN Done([c EXCEPT !.pc = read_param(c, 1, instr)], <<>>)
    ELSE advance_pc(Done(c, <<>>), 3)

\* Op::ShiftRelativeBase, were the operand assigned rather than added.
exec_set_relative_base(c, instr) ==
    advance_pc(Done([c EXCEPT !.relative_base = read_param(c, 0, instr)], <<>>), 2)

exec_shift_relative_base(c, instr) ==
    advance_pc(Done([c EXCEPT !.relative_base = @ + read_param(c, 0, instr)], <<>>), 2)

\* Op::Halt, were pc advanced past the halt word.
exec_halt_advances(c, instr) == Done([c EXCEPT !.state = "Halted", !.pc = @ + 1], <<>>)

exec_halt(c, instr) == Done([c EXCEPT !.state = "Halted"], <<>>)

\* the match on instr.opcode
exec_opcode(c, instr) ==
    LET op == instr.opcode
    IN  IF op = "Halt" THEN exec_halt(c, instr)
        ELSE IF op = "Input" THEN exec_input(c, instr)
        ELSE IF operand_overflows(c, instr) THEN Panic(c, "unexplored", <<>>)
        ELSE CASE op = "Add"               -> exec_add(c, instr)
               [] op = "Mul"               -> exec_mul(c, instr)
               [] op = "Output"            -> exec_output(c, instr)
               [] op = "JumpIfTrue"        -> exec_jump_if_true(c, instr)
               [] op = "JumpIfFalse"       -> exec_jump_if_false(c, instr)
               [] op = "LessThan"          -> exec_less_than(c, instr)
               [] op = "Equals"            -> exec_equals(c, instr)
               [] op = "ShiftRelativeBase" -> exec_shift_relative_base(c, instr)

\* execute, without its check of the Halted status.
execute_unchecked(c, instr) == exec_opcode(c, instr)

execute(c, instr) ==
    IF c.state = "Halted" THEN Panic(c, "panic_halted", <<>>) ELSE exec_opcode(c, instr)

\* The part of the state space explored.
Bounded(c) ==
    /\ Len(c.input_queue) <= MaxQueue
    /\ Len(c.output_queue) <= MaxQueue
    /\ Cardinality(DOMAIN c.mem.extra) <= MaxExtra
    /\ Abs(c.relative_base) <= WordLimit
    /\ Abs(c.pc) <= WordLimit
    /\ \A i \in DOMAIN c.mem.initial_data : Abs(c.mem.initial_data[i]) <= WordLimit
    /\ \A a \in DOMAIN c.mem.extra : Abs(a) <= WordLimit /\ Abs(c.mem.extra[a]) <= WordLimit

\* step, were the instruction decoded from the image the CPU was built with.
step_from_image(c) ==
    LET word == IF c.pc >= 0 /\ c.pc < Len(image) THEN image[c.pc + 1] ELSE 0
        instr == InstructionTryFrom(word)
    IN  IF ~instr.ok THEN Panic(c, "panic_decode", <<>>) ELSE execute(c, instr)

step(c) ==
    LET instr == InstructionTryFrom(MemoryIndex(c.mem, c.pc))
    IN  IF ~instr.ok THEN Panic(c, "panic_decode", <<>>) ELSE execute(c, instr)

\* while self.state == CpuState::Running { self.step(); }
RECURSIVE run_loop(_, _)
run_loop(r, fuel) ==
    IF r.fault # "none" \/ r.cpu.state # "Running" THEN r
    ELSE IF ~Bounded(r.cpu) THEN [r EXCEPT !.fault = "unexplored"]
    ELSE IF fuel = 0 THEN [r EXCEPT !.fault = "no_return"]
    ELSE LET s == step(r.cpu)
         IN  run_loop([s EXCEPT !.stores = r.stores \o s.stores], fuel - 1)

\* run, were it an `if` rather than a `while`: one step only.
run_single_step(c) ==
    LET s == step([c EXCEPT !.state = "Running"])
    IN  IF ~Bounded(s.cpu) THEN [s EXCEPT !.fault = "unexplored"] ELSE s

\* run, were the status not set to Running before the first step.
run_without_restart(c) == run_loop(step(c), MaxRunSteps - 1)

\* run, were "restarts" to mean from the first instruction again.
run_from_start(c) ==
    run_loop(Done([c EXCEPT !.state = "Running", !.pc = 0], <<>>), MaxRunSteps)

run(c) == run_loop(Done([c EXCEPT !.state = "Running"], <<>>), MaxRunSteps)

\* ------------------------------------------------------------ client methods
\* reset, were the queues not cleared.
reset_keeps_queues(c, program) ==
    Done([CpuNew(program) EXCEPT !.input_queue = c.input_queue,
                                 !.output_queue = c.output_queue], <<>>)

reset(c, program) == Done(CpuNew(program), <<>>)

write_mem(c, addr, value) ==
    Done([c EXCEPT !.mem = MemoryIndexMut(@, addr, value)], <<<<addr, value>>>>)

\* the CPU it leaves (it takes &mut self) and the value it returns
read_mem(c, addr) == [cpu |-> c, value |-> MemoryIndex(c.mem, addr)]

\* send_input, were a suspended CPU resumed by it.
send_input_resumes(c, input) ==
    Done([c EXCEPT !.input_queue = Append(@, input),
                   !.state = IF @ = "WaitIO" THEN "Running" ELSE @], <<>>)

\* send_input, were it push_front.
send_input_at_front(c, input) == Done([c EXCEPT !.input_queue = <<input>> \o @], <<>>)

send_input(c, input) == Done([c EXCEPT !.input_queue = Append(@, input)], <<>>)

\* consume_output_all, were the queue read without being drained.
consume_output_all_leaves(c) == Done(c, <<>>)

consume_output_all(c) == Done([c EXCEPT !.output_queue = <<>>], <<>>)

\* Option<i64> as a sequence: None is <<>>, Some(x) is <<x>>.
consume_output_last_value(c) ==
    IF c.output_queue = <<>> THEN <<>> ELSE <<c.output_queue[Len(c.output_queue)]>>

\* self.input_queue.extend(iter)
send_input_iter(c, iter) == Done([c EXCEPT !.input_queue = @ \o iter], <<>>)

\* `c as i64` of the characters the clients send.
CharCode(ch) ==
    CASE ch = "A" -> 65
      [] ch = "J" -> 74
      [] ch = " " -> 32
      [] ch = "nl" -> 10

\* s.chars().map(|c| c as i64); a &str is the sequence of its characters,
\* the line feed written "nl".
RECURSIVE CharCodes(_)
CharCodes(str) == IF str = <<>> THEN <<>> ELSE <<CharCode(Head(str))>> \o CharCodes(Tail(str))

send_input_string(c, str) == Done([c EXCEPT !.input_queue = @ \o CharCodes(str)], <<>>)

\* Option<i64>: self.input_queue.front().cloned()
peek_input_first(c) == IF c.input_queue = <<>> THEN <<>> ELSE <<Head(c.input_queue)>>

\* Option<i64>: self.output_queue.back().cloned()
peek_output_last(c) == consume_output_last_value(c)

\* consume_output_n, were it to hand out what there is when there is too little.
consume_output_n_partial(c, n) ==
    LET k == IF Len(c.output_queue) >= n THEN n ELSE Len(c.output_queue)
    IN  [cpu |-> [c EXCEPT !.output_queue = SubSeq(@, k + 1, Len(@))],
         value |-> <<SubSeq(c.output_queue, 1, k)>>]

\* Option<Vec<i64>>: Some(drain(..n)) when at least n values are queued, else None.
consume_output_n(c, n) ==
    IF Len(c.output_queue) >= n
    THEN [cpu |-> [c EXCEPT !.output_queue = SubSeq(@, n + 1, Len(@))],
          value |-> <<SubSeq(c.output_queue, 1, n)>>]
    ELSE [cpu |-> c, value |-> <<>>]

\* Option<i64>: self.output_queue.pop_front()
consume_output(c) ==
    IF c.output_queue = <<>> THEN [cpu |-> c, value |-> <<>>]
    ELSE [cpu |-> [c EXCEPT !.output_queue = Tail(@)], value |-> <<Head(c.output_queue)>>]

\* ------------------------------------------------------------ the client's calls
RECURSIVE ApplyStores(_, _)
ApplyStores(w, stores) ==
    IF stores = <<>> THEN w
    ELSE ApplyStores((Head(stores)[1] :> Head(stores)[2]) @@ w, Tail(stores))

\* A call that ends as r: the CPU it leaves and the history of it.
Returns(r, op, arg, ret) ==
    /\ fault = "none"
    /\ r.fault # "unexplored"
    /\ Bounded(r.cpu)
    /\ cpu' = r.cpu
    /\ fault' = r.fault
    /\ written' = ApplyStores(written, r.stores)
    /\ old' = cpu
    /\ old_halted_by' = halted_by
    /\ call' = [op |-> op, arg |-> arg, ret |-> ret]
    /\ net' = net

Init ==
    \E program \in Programs :
        /\ cpu = CpuNew(program)
        /\ fault = "none"
        /\ image = program
        /\ written = NoExtra
        /\ halted_by = "new"
        /\ pokes = 0
        /\ old = CpuNew(program)
        /\ old_halted_by = "new"
        /\ call = [op |-> "new", arg |-> program, ret |-> <<>>]
        /\ net = NoNet

Reset ==
    \E program \in ResetPrograms :
        /\ fault = "none"
        /\ cpu' = reset(cpu, program).cpu
        /\ image' = program
        /\ written' = NoExtra
        /\ halted_by' = "reset"
        /\ old' = cpu
        /\ old_halted_by' = halted_by
        /\ call' = [op |-> "reset", arg |-> program, ret |-> <<>>]
        /\ net' = net
        /\ UNCHANGED <<fault, pokes>>

Executed(r) ==
    halted_by' = IF r.fault = "none" /\ r.cpu.state = "Halted" THEN "halt" ELSE halted_by

Run ==
    /\ Returns(run(cpu), "run", <<>>, <<>>)
    /\ Executed(run(cpu))
    /\ UNCHANGED <<image, pokes>>

Step ==
    /\ Returns(step(cpu), "step", <<>>, <<>>)
    /\ Executed(step(cpu))
    /\ UNCHANGED <<image, pokes>>

WriteMemAt(addrs) ==
    \E addr \in addrs, value \in PokeVals :
        /\ pokes < MaxPokes
        /\ pokes' = pokes + 1
        /\ Returns(write_mem(cpu, addr, value), "write_mem", <<addr, value>>, <<>>)
        /\ UNCHANGED <<image, halted_by>>

WriteMem == WriteMemAt(PokeAddrs)

ReadMemAt(addrs) ==
    \E addr \in addrs :
        /\ Returns(Done(read_mem(cpu, addr).cpu, <<>>), "read_mem", <<addr>>,
                   <<read_mem(cpu, addr).value>>)
        /\ UNCHANGED <<image, halted_by, pokes>>

ReadMem == ReadMemAt(PeekAddrs)

SendInput ==
    \E input \in InputVals :
        /\ Returns(send_input(cpu, input), "send_input", <<input>>, <<>>)
        /\ UNCHANGED <<image, halted_by, pokes>>

ConsumeOutputLast ==
    /\ Returns(consume_output_all(cpu), "consume_output_last", <<>>, consume_output_last_value(cpu))
    /\ UNCHANGED <<image, halted_by, pokes>>

ConsumeOutputAll ==
    /\ Returns(consume_output_all(cpu), "consume_output_all", <<>>, cpu.output_queue)
    /\ UNCHANGED <<image, halted_by, pokes>>

Next ==
    \/ Reset
    \/ Run
    \/ Step
    \/ WriteMem
    \/ ReadMem
    \/ SendInput
    \/ ConsumeOutputLast
    \/ ConsumeOutputAll

Spec == Init /\ [][Next]_vars

\* ------------------------------------------------------------ one instruction at a time
\* A fresh CPU on any of the programs.
Fresh(programs) ==
    \E program \in programs :
        /\ cpu = CpuNew(program)
        /\ fault = "none"
        /\ image = program
        /\ written = NoExtra
        /\ halted_by = "new"
        /\ pokes = 0
        /\ old = CpuNew(program)
        /\ old_halted_by = "new"
        /\ call = [op |-> "new", arg |-> program, ret |-> <<>>]
        /\ net = NoNet

InitInstr == Fresh(InstrPrograms \cup {<<w>> : w \in DecodeWords})

\* Instruction::try_from(self.mem[self.pc]), as step() and the disassembler call
\* it: the CPU is left alone, the Result is returned.
Decode ==
    /\ Returns(Done(cpu, <<>>), "try_from", <<MemoryIndex(cpu.mem, cpu.pc)>>,
               InstructionTryFrom(MemoryIndex(cpu.mem, cpu.pc)))
    /\ UNCHANGED <<image, halted_by, pokes>>

WriteMemNegative == WriteMemAt(NegativeAddrs)

ReadMemNegative == ReadMemAt(NegativeAddrs)

NextInstr ==
    \/ Run
    \/ Step
    \/ Decode
    \/ SendInput
    \/ WriteMemNegative
    \/ ReadMemNegative
    \/ ConsumeOutputAll

SpecInstr == InitInstr /\ [][NextInstr]_vars

\* ------------------------------------------------------------ run(), one iteration at a time
\* The self-reproducing program of day9's tests::examples.
Quine == <<109, 1, 204, -1, 1001, 100, 1, 100, 1008, 100, 16, 101, 1006, 101, 0, 99>>
LoopPrograms == {Quine, Echo, <<3, 9, 4, 9, 1105, 1, 0>>, <<1101, 1, 2, 7, 4, 7, 99, 0>>, <<55>>}

InitLoop == Fresh(LoopPrograms)

\* Control is inside run(): call.op is "run_loop" from the entry to the return.
InRun == call.op = "run_loop"

\* self.state = CpuState::Running; old keeps the CPU as run() found it.
RunEnter ==
    /\ fault = "none"
    /\ ~InRun
    /\ cpu' = [cpu EXCEPT !.state = "Running"]
    /\ old' = cpu
    /\ old_halted_by' = halted_by
    /\ call' = [op |-> "run_loop", arg |-> <<>>, ret |-> <<>>]
    /\ net' = net
    /\ UNCHANGED <<fault, image, written, halted_by, pokes>>

\* One iteration of `while self.state == CpuState::Running { self.step(); }`
RunIterate ==
    /\ fault = "none"
    /\ InRun
    /\ cpu.state = "Running"
    /\ cpu' = step(cpu).cpu
    /\ fault' = step(cpu).fault
    /\ written' = ApplyStores(written, step(cpu).stores)
    /\ Executed(step(cpu))
    /\ UNCHANGED <<image, pokes, old, old_halted_by, call, net>>

\* The loop's test fails: return self.
RunReturn ==
    /\ fault = "none"
    /\ InRun
    /\ cpu.state # "Running"
    /\ call' = [op |-> "run", arg |-> <<>>, ret |-> <<>>]
    /\ net' = net
    /\ UNCHANGED <<cpu, fault, image, written, halted_by, pokes, old, old_halted_by>>

\* The client's calls between two calls of run().
SendInputIdle == ~InRun /\ SendInput

ConsumeOutputAllIdle == ~InRun /\ ConsumeOutputAll

ReadMemIdle == ~InRun /\ ReadMem

NextLoop ==
    \/ RunEnter
    \/ RunIterate
    \/ RunReturn
    \/ SendInputIdle
    \/ ConsumeOutputAllIdle
    \/ ReadMemIdle

SpecLoop == InitLoop /\ [][NextLoop]_vars

\* ------------------------------------------------------------ values beyond 31 bits
\* The programs of day9's tests::examples that multiply two literals and output
\* the product, and that output one literal, for several literals.
MulProgram(a, b) == <<1102, a, b, 7, 4, 7, 99, 0>>
BigOperands == {3, 46341, 65536, 34915192, -34915192, 2147483647}
LiteralProgram(l) == <<104, l, 99>>
\* 1125899906842624 and its negative.
Literals ==
    { [neg |-> FALSE, limbs |-> <<2624, 684, 8999, 1125, 0>>],
      [neg |-> TRUE, limbs |-> <<2624, 684, 8999, 1125, 0>>] }

InitWide ==
    Fresh({MulProgram(a, b) : a, b \in BigOperands} \cup {LiteralProgram(l) : l \in Literals})

\* A call that ends as r, whatever the size of the values it leaves.
Ends(r, op, arg, ret) ==
    /\ fault = "none"
    /\ cpu' = r.cpu
    /\ fault' = r.fault
    /\ written' = ApplyStores(written, r.stores)
    /\ old' = cpu
    /\ old_halted_by' = halted_by
    /\ call' = [op |-> op, arg |-> arg, ret |-> ret]
    /\ net' = net

ConsumeOutputLastWide ==
    /\ ~InRun
    /\ Ends(consume_output_all(cpu), "consume_output_last", <<>>, consume_output_last_value(cpu))
    /\ UNCHANGED <<image, halted_by, pokes>>

ConsumeOutputAllWide ==
    /\ ~InRun
    /\ Ends(consume_output_all(cpu), "consume_output_all", <<>>, cpu.output_queue)
    /\ UNCHANGED <<image, halted_by, pokes>>

NextWide ==
    \/ RunEnter
    \/ RunIterate
    \/ RunReturn
    \/ ConsumeOutputLastWide
    \/ ConsumeOutputAllWide

SpecWide == InitWide /\ [][NextWide]_vars

\* ------------------------------------------------------------ the queues
MaxBuffered == 4
CountVals == {0, 1, 2, 3}
IterVals == {<<>>, <<-1, 17>>}
StringVals == {<<"A", "nl">>}
EchoLoop == <<3, 9, 4, 9, 1105, 1, 0>>
QueuePrograms == {Echo, EchoLoop, <<104, 5, 104, 6, 104, 7, 3, 0, 99>>}

InitClient == Fresh(QueuePrograms)

\* The values in flight stay within MaxBuffered when k more are sent.
Room(k) == Len(cpu.input_queue) + Len(cpu.output_queue) + k <= MaxBuffered

\* A call of the client, between two calls of run(), that ends as the CPU c.
Calls(c, op, arg, ret) ==
    /\ ~InRun
    /\ Ends(Done(c, <<>>), op, arg, ret)
    /\ UNCHANGED <<image, halted_by, pokes>>

ClientStep ==
    /\ ~InRun
    /\ Ends(step(cpu), "step", <<>>, <<>>)
    /\ Executed(step(cpu))
    /\ UNCHANGED <<image, pokes>>

ClientSendInput ==
    \E input \in InputVals :
        /\ Room(1)
        /\ Calls(send_input(cpu, input).cpu, "send_input", <<input>>, <<>>)

ClientSendInputIter ==
    \E iter \in IterVals :
        /\ Room(Len(iter))
        /\ Calls(send_input_iter(cpu, iter).cpu, "send_input_iter", <<iter>>, <<>>)

ClientSendInputString ==
    \E str \in StringVals :
        /\ Room(Len(str))
        /\ Calls(send_input_string(cpu, str).cpu, "send_input_string", <<str>>, <<>>)

ClientPeekInputFirst == Calls(cpu, "peek_input_first", <<>>, peek_input_first(cpu))

ClientPeekOutputLast == Calls(cpu, "peek_output_last", <<>>, peek_output_last(cpu))

ClientConsumeOutputN ==
    \E n \in CountVals :
        Calls(consume_output_n(cpu, n).cpu, "consume_output_n", <<n>>,
              consume_output_n(cpu, n).value)

ClientConsumeOutput ==
    Calls(consume_output(cpu).cpu, "consume_output", <<>>, consume_output(cpu).value)

ClientConsumeOutputLast ==
    Calls(consume_output_all(cpu).cpu, "consume_output_last", <<>>,
          consume_output_last_value(cpu))

ClientConsumeOutputAll ==
    Calls(consume_output_all(cpu).cpu, "consume_output_all", <<>>, cpu.output_queue)

NextClient ==
    \/ RunEnter
    \/ RunIterate
    \/ RunReturn
    \/ ClientStep
    \/ ClientSendInput
    \/ ClientSendInputIter
    \/ ClientSendInputString
    \/ ClientPeekInputFirst
    \/ ClientPeekOutputLast
    \/ ClientConsumeOutputN
    \/ ClientConsumeOutput
    \/ ClientConsumeOutputLast
    \/ ClientConsumeOutputAll

SpecClient == InitClient /\ [][NextClient]_vars

\* ------------------------------------------------------------ several CPUs
\* The clients that build several CPUs from one program vector (day7's five
\* amplifiers, day23's fifty computers): cpu is the sequence of the CPUs built
\* so far, image the caller's vector, call.arg[1] the CPU the call is made on;
\* old is not kept.
MaxCpus == 2
MaxFleetQueue == 1
FleetPrograms == {Echo}
FleetInputs == {17}
FleetPokeAddrs == {0}

InitFleet ==
    \E program \in FleetPrograms :
        /\ cpu = <<>>
        /\ fault = "none"
        /\ image = program
        /\ written = NoExtra
        /\ halted_by = "new"
        /\ pokes = 0
        /\ old = <<>>
        /\ old_halted_by = "new"
        /\ call = [op |-> "none", arg |-> <<>>, ret |-> <<>>]
        /\ net = NoNet

\* The CPUs after a call on the i-th leaves it as c: each CPU owns its fields.
FleetAfter(fleet, i, c) == [fleet EXCEPT ![i] = c]

\* A call on the i-th CPU that ends as r.
On(i, r, op, arg, ret) ==
    /\ fault = "none"
    /\ r.fault # "unexplored"
    /\ Bounded(r.cpu)
    /\ Len(r.cpu.input_queue) + Len(r.cpu.output_queue) <= MaxFleetQueue
    /\ cpu' = FleetAfter(cpu, i, r.cpu)
    /\ fault' = r.fault
    /\ call' = [op |-> op, arg |-> <<i>> \o arg, ret |-> ret]
    /\ net' = net
    /\ UNCHANGED <<image, written, halted_by, pokes, old, old_halted_by>>

\* CPU::new(&program)
FleetNew ==
    /\ fault = "none"
    /\ Len(cpu) < MaxCpus
    /\ cpu' = Append(cpu, CpuNew(image))
    /\ call' = [op |-> "new", arg |-> <<Len(cpu) + 1>>, ret |-> <<>>]
    /\ net' = net
    /\ UNCHANGED <<fault, image, written, halted_by, pokes, old, old_halted_by>>

FleetRun == \E i \in DOMAIN cpu : On(i, run(cpu[i]), "run", <<>>, <<>>)

FleetStep == \E i \in DOMAIN cpu : On(i, step(cpu[i]), "step", <<>>, <<>>)

FleetWriteMem ==
    \E i \in DOMAIN cpu, addr \in FleetPokeAddrs, value \in PokeVals :
        On(i, write_mem(cpu[i], addr, value), "write_mem", <<addr, value>>, <<>>)

FleetSendInput ==
    \E i \in DOMAIN cpu, input \in FleetInputs :
        On(i, send_input(cpu[i], input), "send_input", <<input>>, <<>>)

FleetConsumeOutput ==
    \E i \in DOMAIN cpu :
        On(i, Done(consume_output(cpu[i]).cpu, <<>>), "consume_output", <<>>,
           consume_output(cpu[i]).value)

NextFleet ==
    \/ FleetNew
    \/ FleetRun
    \/ FleetStep
    \/ FleetWriteMem
    \/ FleetSendInput
    \/ FleetConsumeOutput

SpecFleet == InitFleet /\ [][NextFleet]_vars

\* ------------------------------------------------------------ patching a suspended CPU
\* The client overwrites the first word, as day13 does, with an instruction
\* that is neither input nor halt: output in immediate mode, or add.
PatchAddrs == {0}
PatchVals == {104, 1101}
PatchPrograms == {Echo, EchoLoop}

InitPatch == Fresh(PatchPrograms)

PatchMem ==
    \E addr \in PatchAddrs, value \in PatchVals :
        /\ pokes < MaxPokes
        /\ pokes' = pokes + 1
        /\ Returns(write_mem(cpu, addr, value), "write_mem", <<addr, value>>, <<>>)
        /\ UNCHANGED <<image, halted_by>>

NextPatch ==
    \/ Run
    \/ Step
    \/ SendInput
    \/ PatchMem
    \/ ReadMem
    \/ ConsumeOutputAll

SpecPatch == InitPatch /\ [][NextPatch]_vars

\* ------------------------------------------------------------ input in one piece or in pieces
\* The input sequences a client has to deliver.
InputSeqs == {<<17>>, <<-1>>, <<17, -1>>, <<-1, 17>>, <<17, 17>>}
\* Programs that read none, one, two or any number of values.
SplitPrograms == {Echo, EchoLoop, <<3, 9, 3, 10, 4, 10, 4, 9, 99>>, <<104, 5, 99>>, <<3, 2, 55>>}

InitSplit == Fresh(SplitPrograms)

\* send_input_iter with one of the sequences.
SendInputIter ==
    \E iter \in InputSeqs :
        /\ Returns(send_input_iter(cpu, iter), "send_input_iter", <<iter>>, <<>>)
        /\ UNCHANGED <<image, halted_by, pokes>>

NextSplit ==
    \/ SendInput
    \/ SendInputIter
    \/ Run
    \/ Step
    \/ ConsumeOutputAll

SpecSplit == InitSplit /\ [][NextSplit]_vars

\* ------------------------------------------------------------ every operation
\* A program that executes every opcode: it reads v, computes (v + 1) * 2,
\* compares it, shifts the relative base, jumps, and emits it or halts.
EveryOpcode ==
    <<3, 50, 1001, 50, 1, 50, 1002, 50, 2, 50, 1007, 50, 10, 51, 1008, 50, 36, 52,
      109, 1, 1005, 51, 27, 1006, 52, 27, 99, 4, 50, 99>>
\* and a program that emits the value it reads twice.
StatusPrograms == {EveryOpcode, <<3, 9, 4, 9, 4, 9, 99>>}

InitStatus == Fresh(StatusPrograms)

ResetIdle == ~InRun /\ Reset

PatchMemIdle == ~InRun /\ PatchMem

NextStatus ==
    \/ RunEnter
    \/ RunIterate
    \/ RunReturn
    \/ ClientStep
    \/ ResetIdle
    \/ PatchMemIdle
    \/ ReadMemIdle
    \/ ClientSendInput
    \/ ClientSendInputIter
    \/ ClientSendInputString
    \/ ClientPeekInputFirst
    \/ ClientPeekOutputLast
    \/ ClientConsumeOutputN
    \/ ClientConsumeOutput
    \/ ClientConsumeOutputLast
    \/ ClientConsumeOutputAll

SpecStatus == InitStatus /\ [][NextStatus]_vars

\* ------------------------------------------------------------ the network (day23)
\* part1 and part2 of day23 drive N computers built from one program; cpu is
\* the vector `nics`, image the program, net the driver's locals and where it
\* is in its loop. The source builds fifty computers; the model builds N.
N == 3
idle_threshold == 650
NatAddress == 255

\* A network program. Each computer reads its address; every computer but
\* number 1 sends the packet (1, 10 + address, 21 + address); then each reads
\* packets for ever, skipping the -1 it is given when nothing is queued, and
\* answers a packet (x, y) with (255, x, y') where y' is y - 1, but never
\* below 21.
\*    0: in ID            2: T = (ID = 1)      6: if T goto 23
\*    9: out 1           11: X = ID + 10      15: out X
\*   17: Y = ID + 21     21: out Y
\*   23: in X            25: T = (X = -1)     29: if T goto 23
\*   32: in Y            34: T = (Y < 22)     38: Y = Y + T     42: Y = Y - 1
\*   46: out 255         48: out X            50: out Y         52: goto 23
\*   55: ID   56: X   57: Y   58: T
Relay ==
    <<3, 55, 1008, 55, 1, 58, 1005, 58, 23,
      104, 1, 1001, 55, 10, 56, 4, 56, 1001, 55, 21, 57, 4, 57,
      3, 56, 1008, 56, -1, 58, 1005, 58, 23,
      3, 57, 1007, 57, 22, 58, 1, 57, 58, 57, 1001, 57, -1, 57,
      104, 255, 4, 56, 4, 57, 1105, 1, 23,
      0, 0, 0, 0>>

\* Relay, with the first packet addressed to a computer that does not exist.
Stray == [Relay EXCEPT ![11] = 77]

\* Relay, with a computer that halts once it has answered a packet.
Quitter == [Relay EXCEPT ![53] = 99]

NetPrograms == {Relay, Stray, Quitter}
NetParts == {1, 2}

\* The tags of the values a computer's input queue holds, for the properties:
\* <<"filler">> for a -1 of the driver, <<"x", k>> and <<"y", k>> for the two
\* values of the k-th packet sent to a computer, which net.log[k] records with
\* the computer it was sent to.
NoTags == [i \in 1..N |-> <<>>]

InitNet ==
    \E program \in NetPrograms, part \in NetParts :
        /\ cpu = <<>>
        /\ fault = "none"
        /\ image = program
        /\ written = NoExtra
        /\ halted_by = "new"
        /\ pokes = 0
        /\ old = <<>>
        /\ old_halted_by = "new"
        /\ call = [op |-> "none", arg |-> <<>>, ret |-> <<>>]
        /\ net = [part |-> part, phase |-> "build", i |-> 1, j |-> 1,
                  packets |-> <<>>, idle_counter |-> 0,
                  nat_packet |-> <<>>, nat_last_delivered_packet |-> <<>>,
                  result |-> <<>>,
                  \* history
                  steps |-> <<>>, ran |-> [i \in 1..N |-> 0], fed |-> {},
                  tags |-> NoTags, sent |-> 0, log |-> <<>>, forwarded |-> 0, quiet |-> 0,
                  captured |-> <<>>, delivered |-> <<>>]

\* The tags of a queue after a call took it from `before` to `after`, having
\* appended `added`: what was consumed left at the front.
TagsAfter(tags, before, after, added) ==
    LET all == tags \o added
        gone == Len(before.input_queue) + Len(added) - Len(after.input_queue)
    IN  SubSeq(all, gone + 1, Len(all))

\* Packet { dest_id: bytes[0] as usize, x: bytes[1], y: bytes[2] }
Packet(bytes) == [dest_id |-> bytes[1], x |-> bytes[2], y |-> bytes[3]]

\* nics[dest_id]: the index is in bounds.
IsNic(dest_id) == dest_id >= 0 /\ dest_id < N

\* The state of the driver at the top of the next iteration of `loop`.
NextTick(n) ==
    [n EXCEPT !.phase = "step", !.i = 1, !.j = 1, !.packets = <<>>,
              !.steps = <<>>, !.ran = [i \in 1..N |-> 0], !.fed = {},
              !.forwarded = 0]

\* The driver's position after the body of `for nic in &mut nics` for the i-th.
AfterNic(n) ==
    IF n.i < N THEN [n EXCEPT !.phase = "step", !.i = @ + 1]
    ELSE [n EXCEPT !.phase = "collect", !.i = 1]

\* A statement of the driver that leaves the computers as nics, the driver
\* as n and the process as f.
Driver(nics, n, f, op, arg, ret) ==
    /\ cpu' = nics
    /\ net' = n
    /\ fault' = f
    /\ call' = [op |-> op, arg |-> arg, ret |-> ret]
    /\ UNCHANGED <<image, written, halted_by, pokes, old, old_halted_by>>

\* let mut nic = CPU::new(program); nic.run(); assert!(state == WaitIO);
\* nic.send_input(id as i64); nic.step(); nics.push(nic);
build_nic(program, id) ==
    LET ran == run(CpuNew(program))
    IN  IF ran.fault # "none" THEN ran
        ELSE IF ran.cpu.state # "WaitIO" THEN Panic(ran.cpu, "panic_assert", <<>>)
        ELSE step(send_input(ran.cpu, id).cpu)

NetBuild ==
    /\ fault = "none"
    /\ net.part # 0
    /\ net.phase = "build"
    /\ LET id == Len(cpu)
           r == build_nic(image, id)
       IN  /\ r.fault # "unexplored"
           /\ Driver(Append(cpu, r.cpu),
                     IF id + 1 < N THEN net ELSE NextTick(net),
                     r.fault, "build", <<id + 1>>, <<>>)

\* nic.step(); if nic.get_state() == CpuState::WaitIO { ...
NetStep ==
    /\ fault = "none"
    /\ net.part # 0
    /\ net.phase = "step"
    /\ LET i == net.i
           r == step(cpu[i])
           waits == r.cpu.state = "WaitIO"
           n == [net EXCEPT !.steps = Append(@, i),
                            !.ran[i] = IF r.fault = "none" /\ ~waits THEN @ + 1 ELSE @,
                            !.tags[i] = TagsAfter(@, cpu[i], r.cpu, <<>>)]
       IN  Driver(FleetAfter(cpu, i, r.cpu),
                  IF waits THEN [n EXCEPT !.phase = "feed"] ELSE AfterNic(n),
                  r.fault, "step", <<i>>, <<>>)

\* nic.send_input(-1);
NetFeed ==
    /\ fault = "none"
    /\ net.part # 0
    /\ net.phase = "feed"
    /\ LET i == net.i
           r == send_input(cpu[i], -1)
       IN  Driver(FleetAfter(cpu, i, r.cpu),
                  [net EXCEPT !.phase = "retry", !.fed = @ \cup {i},
                              !.tags[i] = Append(@, <<"filler">>)],
                  r.fault, "send_input", <<i, -1>>, <<>>)

\* nic.step(); assert!(nic.get_state() != CpuState::WaitIO);
step_fed(c) ==
    LET r == step(c)
    IN  IF r.fault = "none" /\ r.cpu.state = "WaitIO"
        THEN Panic(r.cpu, "panic_assert", <<>>) ELSE r

NetRetry ==
    /\ fault = "none"
    /\ net.part # 0
    /\ net.phase = "retry"
    /\ LET i == net.i
           r == step_fed(cpu[i])
           n == [net EXCEPT !.steps = Append(@, i),
                            !.ran[i] = IF r.fault = "none" THEN @ + 1 ELSE @,
                            !.tags[i] = TagsAfter(@, cpu[i], r.cpu, <<>>)]
       IN  Driver(FleetAfter(cpu, i, r.cpu), AfterNic(n), r.fault, "step", <<i>>, <<>>)

\* The driver after the packet taken from a computer's output: part 1 returns
\* the y of a packet for address 255, part 2 keeps that packet for the NAT;
\* any other packet is pushed on the packets of this iteration.
collect(n, packet) ==
    IF packet.dest_id = NatAddress
    THEN IF n.part = 1
         THEN [n EXCEPT !.phase = "returned", !.result = <<packet.y>>]
         ELSE [n EXCEPT !.nat_packet = <<packet>>, !.captured = <<packet>>]
    ELSE [n EXCEPT !.packets = Append(@, packet)]

\* The position after the body of the second `for nic in &mut nics`.
AfterCollect(n) ==
    IF n.phase = "returned" THEN n
    ELSE IF n.i < N THEN [n EXCEPT !.i = @ + 1]
    ELSE [n EXCEPT !.phase = "forward", !.j = 1]

\* if let Some(bytes) = nic.consume_output_n(3) { ...
NetCollect ==
    /\ fault = "none"
    /\ net.part # 0
    /\ net.phase = "collect"
    /\ LET i == net.i
           r == consume_output_n(cpu[i], 3)
       IN  Driver(FleetAfter(cpu, i, r.cpu),
                  AfterCollect(IF r.value = <<>> THEN net
                               ELSE collect(net, Packet(r.value[1]))),
                  "none", "consume_output_n", <<i, 3>>, r.value)

\* nics[packet.dest_id].send_input(packet.x);
NetForwardX ==
    /\ fault = "none"
    /\ net.part # 0
    /\ net.phase = "forward"
    /\ net.j <= Len(net.packets)
    /\ LET packet == net.packets[net.j]
           d == packet.dest_id + 1
       IN  IF ~IsNic(packet.dest_id)
           THEN Driver(cpu, net, "panic_index", "send_input", <<d, packet.x>>, <<>>)
           ELSE Driver(FleetAfter(cpu, d, send_input(cpu[d], packet.x).cpu),
                       [net EXCEPT !.phase = "forward_y", !.sent = @ + 1,
                                   !.log = Append(@, packet),
                                   !.forwarded = @ + 1,
                                   !.tags[d] = Append(@, <<"x", net.sent + 1>>)],
                       "none", "send_input", <<d, packet.x>>, <<>>)

\* nics[packet.dest_id].send_input(packet.y);
NetForwardY ==
    /\ fault = "none"
    /\ net.part # 0
    /\ net.phase = "forward_y"
    /\ LET packet == net.packets[net.j]
           d == packet.dest_id + 1
       IN  Driver(FleetAfter(cpu, d, send_input(cpu[d], packet.y).cpu),
                  [net EXCEPT !.phase = "forward", !.j = @ + 1,
                              !.tags[d] = Append(@, <<"y", net.sent>>)],
                  "none", "send_input", <<d, packet.y>>, <<>>)

\* The end of `for packet in packets`: part 1 starts the next iteration,
\* part 2 goes on to count the idle iterations.
NetForwarded ==
    /\ fault = "none"
    /\ net.part # 0
    /\ net.phase = "forward"
    /\ net.j > Len(net.packets)
    /\ Driver(cpu, IF net.part = 1 THEN NextTick(net) ELSE [net EXCEPT !.phase = "idle"],
              "none", "forwarded", <<>>, <<>>)

\* packets_produced.len() == 0, were the input queues not looked at.
network_idle_by_packets_only(packets_produced, nics) == Len(packets_produced) = 0

\* packets_produced.len() == 0 && nics.iter().all(|nic| nic.peek_input_first().is_none())
network_idle(packets_produced, nics) ==
    /\ Len(packets_produced) = 0
    /\ \A i \in DOMAIN nics : peek_input_first(nics[i]) = <<>>

\* if ... { idle_counter += 1; } else { idle_counter = 0; }
NetIdle ==
    /\ fault = "none"
    /\ net.part = 2
    /\ net.phase = "idle"
    /\ LET quiet == net.forwarded = 0 /\ \A i \in DOMAIN cpu : cpu[i].input_queue = <<>>
       IN  Driver(cpu,
                  [net EXCEPT !.phase = "nat",
                              !.idle_counter = IF network_idle(net.packets, cpu)
                                               THEN @ + 1 ELSE 0,
                              !.quiet = IF quiet THEN @ + 1 ELSE 0],
                  "none", "idle", <<>>, <<>>)

\* if idle_counter >= idle_threshold { if let Some(packet) = nat_packet {
\* nics[0].send_input(packet.x); ... } else { panic!(...) }
NetNat ==
    /\ fault = "none"
    /\ net.part = 2
    /\ net.phase = "nat"
    /\ IF net.idle_counter < idle_threshold
       THEN Driver(cpu, NextTick(net), "none", "nat", <<>>, <<>>)
       ELSE IF net.nat_packet = <<>>
       THEN Driver(cpu, net, "panic_no_nat_packet", "nat", <<>>, <<>>)
       ELSE LET packet == net.nat_packet[1]
            IN  Driver(FleetAfter(cpu, 1, send_input(cpu[1], packet.x).cpu),
                       [net EXCEPT !.phase = "nat_y", !.sent = @ + 1,
                                   !.log = Append(@, [packet EXCEPT !.dest_id = 0]),
                                   !.tags[1] = Append(@, <<"x", net.sent + 1>>)],
                       "none", "send_input", <<1, packet.x>>, <<>>)

\* The driver after the NAT has sent packet: it returns packet.y when the
\* packet delivered last had the same y, else remembers packet, and then
\* idle_counter = 0; nat_packet = None.
delivered_again_by_x(n, packet) ==
    LET d == [n EXCEPT !.delivered = Append(@, packet)]
    IN  IF n.nat_last_delivered_packet # <<>> /\ n.nat_last_delivered_packet[1].x = packet.x
        THEN [d EXCEPT !.phase = "returned", !.result = <<packet.y>>]
        ELSE NextTick([d EXCEPT !.nat_last_delivered_packet = <<packet>>,
                                !.idle_counter = 0, !.nat_packet = <<>>])

nat_delivered(n, packet) ==
    LET d == [n EXCEPT !.delivered = Append(@, packet)]
    IN  IF n.nat_last_delivered_packet # <<>> /\ n.nat_last_delivered_packet[1].y = packet.y
        THEN [d EXCEPT !.phase = "returned", !.result = <<packet.y>>]
        ELSE NextTick([d EXCEPT !.nat_last_delivered_packet = <<packet>>,
                                !.idle_counter = 0, !.nat_packet = <<>>])

\* nics[0].send_input(packet.y); if let Some(ldp) = nat_last_delivered_packet { ...
NetNatY ==
    /\ fault = "none"
    /\ net.part = 2
    /\ net.phase = "nat_y"
    /\ LET packet == net.nat_packet[1]
       IN  Driver(FleetAfter(cpu, 1, send_input(cpu[1], packet.y).cpu),
                  nat_delivered([net EXCEPT !.tags[1] = Append(@, <<"y", net.sent>>)],
                                packet),
                  "none", "send_input", <<1, packet.y>>, <<>>)

NextNet ==
    \/ NetBuild
    \/ NetStep
    \/ NetFeed
    \/ NetRetry
    \/ NetCollect
    \/ NetForwardX
    \/ NetForwardY
    \/ NetForwarded
    \/ NetIdle
    \/ NetNat
    \/ NetNatY

SpecNet == InitNet /\ [][NextNet]_vars

\* i64::to_string of a value beyond 31 bits: its characters, in order.
DigitChar(d) == <<"0", "1", "2", "3", "4", "5", "6", "7", "8", "9">>[d + 1]
LimbChars(l) ==
    <<DigitChar(l \div 1000), DigitChar((l \div 100) % 10), DigitChar((l \div 10) % 10),
      DigitChar(l % 10)>>
RECURSIVE StripZeros(_)
StripZeros(chars) ==
    IF Len(chars) > 1 /\ Head(chars) = "0" THEN StripZeros(Tail(chars)) ELSE chars
RECURSIVE AllLimbChars(_)
AllLimbChars(limbs) ==
    IF limbs = <<>> THEN <<>> ELSE AllLimbChars(Tail(limbs)) \o LimbChars(Head(limbs))
to_string(v) ==
    (IF v.neg THEN <<"-">> ELSE <<>>) \o StripZeros(AllLimbChars(v.limbs))

\* ------------------------------------------------------------ properties
\* The last call returned to its caller.
Returned(op) == call.op = op /\ fault = "none"

\* The instruction step() decodes on CPU c.
InstrAt(c) == InstructionTryFrom(MemoryIndex(c.mem, c.pc))

\* The echo program's CPU at the points of tests::io_states: parked on its input
\* instruction, then with v queued, then after one, two and three steps.
EchoSuspended == [CpuNew(Echo) EXCEPT !.state = "WaitIO"]
EchoFed(v) == [EchoSuspended EXCEPT !.input_queue = <<v>>]
EchoStored(v) ==
    [pc |-> 2, mem |-> MemoryNew(<<v, 0, 4, 0, 99>>), input_queue |-> <<>>,
     output_queue |-> <<>>, state |-> "Running", relative_base |-> 0]
EchoWritten(v) == [EchoStored(v) EXCEPT !.pc = 4, !.output_queue = <<v>>]
EchoHalted(v) == [EchoWritten(v) EXCEPT !.state = "Halted"]

\* C1: on a fresh CPU with the echo program [3,0,4,0,99], run() with an empty
\* input queue returns with status WaitIO and an empty output queue (parked at
\* pc 0); send_input(v) then only queues v; and the run() after it returns with
\* status Halted and the output queue exactly [v], for every v sent.
C1_EchoRun ==
    /\ (call.op = "run" /\ old = CpuNew(Echo)) =>
            /\ fault = "none"
            /\ cpu.state = "WaitIO"
            /\ cpu.output_queue = <<>>
            /\ cpu = EchoSuspended
    /\ (call.op = "send_input" /\ old = EchoSuspended) =>
            fault = "none" /\ cpu = EchoFed(call.arg[1])
    /\ \A v \in InputVals :
            (call.op = "run" /\ old = EchoFed(v)) =>
                fault = "none" /\ cpu.state = "Halted" /\ cpu.output_queue = <<v>>

C1_Witness ==
    /\ Returned("run")
    /\ old = EchoFed(17)
    /\ cpu.state = "Halted"
    /\ cpu.output_queue = <<17>>

\* C2 as claimed: every run() on a CPU whose status is WaitIO and whose input
\* queue is empty returns with pc unchanged and status WaitIO.
C2_AnyWaitingCpu ==
    (call.op = "run" /\ old.state = "WaitIO" /\ old.input_queue = <<>>) =>
        fault = "none" /\ cpu.pc = old.pc /\ cpu.state = "WaitIO"

\* C2 amended: every run() on a CPU whose status is WaitIO, whose input queue is
\* empty and whose word at pc still decodes as an input instruction returns with
\* pc unchanged and status WaitIO (and the rest of the CPU as it was), so any
\* number of such calls leaves the CPU parked.
C2_RunWhileSuspended ==
    ( /\ call.op = "run"
      /\ old.state = "WaitIO"
      /\ old.input_queue = <<>>
      /\ InstrAt(old).opcode = "Input" ) =>
        fault = "none" /\ cpu.pc = old.pc /\ cpu.state = "WaitIO" /\ cpu = old

C2_Witness ==
    /\ Returned("run")
    /\ old.state = "WaitIO"
    /\ old.input_queue = <<>>
    /\ InstrAt(old).opcode = "Input"
    /\ cpu = old
    /\ cpu.mem.extra # NoExtra

\* C3: whenever run() returns to its caller, the status is Halted or WaitIO,
\* never Running.
C3_RunReturnsStopped ==
    Returned("run") => cpu.state \in {"Halted", "WaitIO"}

C3_Witness ==
    /\ Returned("run")
    /\ old.state = "WaitIO"
    /\ old.input_queue # <<>>
    /\ cpu.state = "WaitIO"
    /\ cpu.output_queue # old.output_queue

\* The destination address of the one-operand instruction at c.pc, whose
\* operand mode is positional or relative.
DstAddr(c) ==
    LET operand == MemoryIndex(c.mem, c.pc + 1)
    IN  IF InstrAt(c).param_modes[1] = "Address" THEN operand ELSE c.relative_base + operand

\* step() executed an input instruction with an address destination.
SteppedInput ==
    /\ call.op = "step"
    /\ old.state # "Halted"
    /\ InstrAt(old).opcode = "Input"
    /\ InstrAt(old).param_modes[1] # "Immediate"

\* The addresses whose content the properties compare.
Addrs == (-2)..MaxAddr

\* C4: an input instruction (with an address destination) stepped with a
\* non-empty input queue removes exactly the front value, stores it at the
\* destination address and nowhere else, advances pc by 2 and sets status
\* Running; stepped with an empty input queue it sets status WaitIO and leaves
\* pc on the same input instruction, which the next step()/run() decodes again.
C4_InputInstruction ==
    SteppedInput =>
        /\ fault = "none"
        /\ old.input_queue # <<>> =>
            /\ cpu.input_queue = Tail(old.input_queue)
            /\ \A a \in Addrs :
                 MemoryIndex(cpu.mem, a) =
                    IF a = DstAddr(old) THEN Head(old.input_queue) ELSE MemoryIndex(old.mem, a)
            /\ cpu.pc = old.pc + 2
            /\ cpu.state = "Running"
            /\ cpu.output_queue = old.output_queue
            /\ cpu.relative_base = old.relative_base
        /\ old.input_queue = <<>> =>
            /\ cpu.state = "WaitIO"
            /\ cpu.pc = old.pc
            /\ InstrAt(cpu) = InstrAt(old)

C4_Witness ==
    /\ SteppedInput
    /\ Len(old.input_queue) = 2
    /\ old.state = "WaitIO"
    /\ InstrAt(old).param_modes[1] = "RelativeAddress"
    /\ cpu.state = "Running"
    /\ cpu.input_queue = Tail(old.input_queue)
    /\ MemoryIndex(cpu.mem, DstAddr(old)) = Head(old.input_queue)
    /\ MemoryIndex(old.mem, DstAddr(old)) # Head(old.input_queue)

\* C5: a step() that attempts an input instruction while the input queue is
\* empty changes nothing but the status: memory, relative base, pc and both
\* queues are as before, and the status is WaitIO; a re-attempt (a step from
\* that WaitIO state) therefore leaves the CPU exactly as it found it.
C5_EmptyInputNoEffect ==
    ( /\ call.op = "step"
      /\ old.state # "Halted"
      /\ InstrAt(old).opcode = "Input"
      /\ old.input_queue = <<>> ) =>
        /\ fault = "none"
        /\ cpu = [old EXCEPT !.state = "WaitIO"]
        /\ step(cpu) = Done(cpu, <<>>)

C5_Witness ==
    /\ Returned("step")
    /\ old.state = "Running"
    /\ InstrAt(old).opcode = "Input"
    /\ old.input_queue = <<>>
    /\ old.output_queue # <<>>
    /\ old.mem.extra # NoExtra
    /\ cpu = [old EXCEPT !.state = "WaitIO"]

\* The words whose decoding C6 hands to execute directly.
SomeWords == {1, 1002, 3, 203, 4, 104, 1105, 1006, 7, 1108, 109, 99}

\* C6: step() on a CPU whose status is Halted (fresh, reset, or halted by a halt
\* instruction) aborts and changes nothing: memory, pc, relative base and the
\* queues are as before. The abort is the usage error "CPU has halted" whenever
\* the word at pc decodes (an undecodable word aborts in the decoder first), and
\* execute() on a Halted CPU aborts with that usage error for every instruction.
C6_StepOnHalted ==
    /\ (call.op = "step" /\ old.state = "Halted") =>
            /\ fault \in {"panic_halted", "panic_decode"}
            /\ InstrAt(old).ok => fault = "panic_halted"
            /\ cpu = old
    /\ cpu.state = "Halted" =>
            \A w \in SomeWords :
                execute(cpu, InstructionTryFrom(w)) = Panic(cpu, "panic_halted", <<>>)

C6_Witness ==
    /\ call.op = "step"
    /\ old.state = "Halted"
    /\ old_halted_by = "halt"
    /\ old.output_queue # <<>>
    /\ InstrAt(old).opcode = "Halt"
    /\ fault = "panic_halted"
    /\ cpu = old

\* C7 as claimed: run() on a CPU that is Halted because it executed a halt
\* instruction is a fatal usage error, like step().
C7_RunOnHaltedFatal ==
    (call.op = "run" /\ old.state = "Halted" /\ old_halted_by = "halt") =>
        fault = "panic_halted"

\* C7 amended: run() on a Halted CPU is never the usage error of step(): it sets
\* the status to Running and steps from pc. On a CPU halted by a halt
\* instruction whose word at pc is still that halt, it returns normally and
\* leaves status Halted, pc, memory, relative base and both queues as they were.
C7_RunOnHaltedRestarts ==
    /\ call.op = "run" => fault # "panic_halted"
    /\ ( /\ call.op = "run"
         /\ old.state = "Halted"
         /\ old_halted_by = "halt"
         /\ InstrAt(old).opcode = "Halt" ) =>
            fault = "none" /\ cpu = old

C7_Witness ==
    /\ Returned("run")
    /\ old.state = "Halted"
    /\ old_halted_by = "halt"
    /\ InstrAt(old).opcode = "Halt"
    /\ old.pc > 0
    /\ cpu = old

\* C8 as claimed: on the echo program suspended in WaitIO with one value v
\* queued, a step() yields status Halted and the output queue exactly [v].
C8_OneStepHalts ==
    \A v \in InputVals :
        (call.op = "step" /\ old = EchoFed(v)) =>
            fault = "none" /\ cpu.state = "Halted" /\ cpu.output_queue = <<v>>

\* C8 amended: on the echo program suspended in WaitIO with one value v queued,
\* invoking step() for as long as the status is Running after it (three calls:
\* the input, the output, the halt) yields, just as one run() does, status
\* Halted and the output queue exactly [v]; the first step() alone leaves it
\* Running.
C8_StepsUntilHalted ==
    \A v \in InputVals :
        /\ (call.op = "step" /\ old = EchoFed(v)) => fault = "none" /\ cpu = EchoStored(v)
        /\ (call.op = "step" /\ old = EchoStored(v)) => fault = "none" /\ cpu = EchoWritten(v)
        /\ (call.op = "step" /\ old = EchoWritten(v)) =>
                /\ fault = "none"
                /\ cpu.state = "Halted"
                /\ cpu.output_queue = <<v>>
                /\ cpu = EchoHalted(v)
        /\ (call.op = "run" /\ old = EchoFed(v)) => fault = "none" /\ cpu = EchoHalted(v)

C8_Witness ==
    /\ Returned("step")
    /\ old = EchoWritten(-1)
    /\ cpu.state = "Halted"
    /\ cpu.output_queue = <<-1>>

\* C9: on a CPU suspended in WaitIO on an input instruction, with one value just
\* queued, a step() that returns has consumed the value and leaves status
\* Running with the output queue as it was (empty for the echo program); on the
\* echo program only the run() that follows brings status Halted and output [v].
C9_StepThenRun ==
    /\ ( /\ Returned("step")
         /\ old.state = "WaitIO"
         /\ InstrAt(old).opcode = "Input"
         /\ Len(old.input_queue) = 1 ) =>
            /\ cpu.state = "Running"
            /\ cpu.input_queue = <<>>
            /\ cpu.output_queue = old.output_queue
    /\ \A v \in InputVals :
         /\ (call.op = "step" /\ old = EchoFed(v)) =>
                /\ fault = "none"
                /\ cpu.state = "Running"
                /\ cpu.input_queue = <<>>
                /\ cpu.output_queue = <<>>
         /\ (call.op = "run" /\ old = EchoStored(v)) =>
                fault = "none" /\ cpu.state = "Halted" /\ cpu.output_queue = <<v>>

C9_Witness ==
    /\ Returned("run")
    /\ old = EchoStored(17)
    /\ old.state = "Running"
    /\ cpu.state = "Halted"
    /\ cpu.output_queue = <<17>>

\* What a read of address a must yield: the value most recently stored there
\* (by an instruction or by write_mem), else the image's value, else 0.
Expected(a) ==
    IF a \in DOMAIN written THEN written[a]
    ELSE IF a < Len(image) THEN image[a + 1]
    ELSE 0

\* C10: in every reachable state, reading any non-negative address yields the
\* value most recently written to it, by an instruction or by write_mem; an
\* address never written yields the image's value inside the image and 0 beyond
\* it; read_mem returns that value and changes nothing of the CPU.
C10_MemoryReadsLastWrite ==
    /\ \A a \in 0..MaxAddr : MemoryIndex(cpu.mem, a) = Expected(a)
    /\ \A a \in DOMAIN written : a >= 0 => MemoryIndex(cpu.mem, a) = written[a]
    /\ call.op = "read_mem" =>
            /\ fault = "none"
            /\ cpu = old
            /\ call.ret = <<Expected(call.arg[1])>>

C10_Witness ==
    /\ Returned("read_mem")
    /\ call.arg = <<9>>
    /\ call.ret = <<17>>
    /\ Len(image) <= 9
    /\ 0 \in DOMAIN written
    /\ MemoryIndex(cpu.mem, 0) = 99
    /\ image[1] # 99

\* ------------------------------------------------------------ one instruction
\* step() executed (past the Halted check) a decoded instruction of one of ops.
Stepped(ops) ==
    /\ call.op = "step"
    /\ old.state # "Halted"
    /\ InstrAt(old).ok
    /\ InstrAt(old).opcode \in ops

\* Operand i (from 0) of the instruction at c.pc: the operand word, its
\* addressing mode, the address it names, and the value it resolves to.
Operand(c, i) == MemoryIndex(c.mem, c.pc + 1 + i)
ModeOf(c, i) == InstrAt(c).param_modes[i + 1]
EffectiveAddr(c, i) ==
    IF ModeOf(c, i) = "Address" THEN Operand(c, i) ELSE c.relative_base + Operand(c, i)
Resolved(c, i) ==
    IF ModeOf(c, i) = "Immediate" THEN Operand(c, i) ELSE MemoryIndex(c.mem, EffectiveAddr(c, i))

\* The instruction at c.pc computes a negative effective address for one of the
\* operands it resolves (an input instruction resolves its operand only when
\* there is input).
NegativeOperand(c) ==
    /\ ~(InstrAt(c).opcode = "Input" /\ c.input_queue = <<>>)
    /\ \E i \in 0..(InstrAt(c).num_params - 1) :
            ModeOf(c, i) # "Immediate" /\ EffectiveAddr(c, i) < 0

\* The instruction at c.pc is a jump that is taken to a negative target.
NegativeJump(c) ==
    /\ \/ InstrAt(c).opcode = "JumpIfTrue" /\ Resolved(c, 0) # 0
       \/ InstrAt(c).opcode = "JumpIfFalse" /\ Resolved(c, 0) = 0
    /\ Resolved(c, 1) < 0

AllOps ==
    {"Add", "Mul", "Input", "Output", "JumpIfTrue", "JumpIfFalse", "LessThan", "Equals",
     "ShiftRelativeBase", "Halt"}

\* C11 as claimed: a step() whose instruction computes a negative effective
\* address for a positional or relative operand, or jumps to a negative target,
\* fails fatally and leaves the CPU as it was; read_mem and write_mem with a
\* negative address fail fatally too: nothing is read from or written to a
\* wrapped-around address, and no read silently yields 0.
C11_NegativeAddressFatal ==
    /\ (Stepped(AllOps) /\ (NegativeOperand(old) \/ NegativeJump(old))) =>
            fault # "none" /\ cpu = old
    /\ (call.op \in {"read_mem", "write_mem"} /\ call.arg[1] < 0) =>
            fault # "none" /\ cpu = old

\* The operation and the number of operands the claims give for opcode m.
OpName(m) ==
    CASE m = 1 -> "Add" [] m = 2 -> "Mul" [] m = 3 -> "Input" [] m = 4 -> "Output"
      [] m = 5 -> "JumpIfTrue" [] m = 6 -> "JumpIfFalse" [] m = 7 -> "LessThan"
      [] m = 8 -> "Equals" [] m = 9 -> "ShiftRelativeBase" [] m = 99 -> "Halt"
OpArity(m) ==
    CASE m \in {1, 2, 7, 8} -> 3 [] m \in {5, 6} -> 2 [] m \in {3, 4, 9} -> 1 [] m = 99 -> 0

\* The decimal digit of a non-negative word w that gives operand i its mode.
ModeDigit(w, i) == (w \div Pow10(2 + i)) % 10

\* The word step() decodes on CPU c.
WordAt(c) == MemoryIndex(c.mem, c.pc)

\* C12: decoding a word w selects the operation by the remainder m of w by 100:
\* a decoded instruction has the operation and operand count the table gives
\* for m; a remainder outside the table (0, the negative remainders of negative
\* words, any other value) never decodes; a remainder in the table decodes
\* whenever its operand digits are valid modes; and a step() or run() that
\* meets a word whose remainder is outside the table aborts in the decoder
\* without executing anything.
C12_DecodeOpcode ==
    /\ call.op = "try_from" =>
            LET w == call.arg[1]
                m == RustRem(w, 100)
                r == call.ret
            IN  /\ r.ok => /\ m \in Opcodes
                           /\ r.opcode = OpName(m)
                           /\ r.num_params = OpArity(m)
                           /\ Len(r.param_modes) = OpArity(m)
                /\ m \notin Opcodes => ~r.ok
                /\ ( /\ m \in Opcodes
                     /\ \A i \in 0..(OpArity(m) - 1) : ModeDigit(w, i) \in {0, 1, 2} ) => r.ok
    /\ (call.op = "step" /\ RustRem(WordAt(old), 100) \notin Opcodes) =>
            fault = "panic_decode" /\ cpu = old
    /\ (call.op = "run" /\ RustRem(WordAt(old), 100) \notin Opcodes) =>
            fault = "panic_decode" /\ cpu = [old EXCEPT !.state = "Running"]

C12_Witness ==
    /\ call.op = "try_from"
    /\ call.arg = <<-99>>
    /\ ~call.ret.ok
    /\ step(cpu).fault = "panic_decode"

\* The mode the claims give for a digit.
ModeName(d) == CASE d = 0 -> "Address" [] d = 1 -> "Immediate" [] d = 2 -> "RelativeAddress"

\* Operand i of the instruction at c.pc, resolved from the digit of the
\* instruction word: the address it names and its value.
AddrByDigit(c, i) ==
    IF ModeDigit(WordAt(c), i) = 0 THEN Operand(c, i) ELSE c.relative_base + Operand(c, i)
ValueByDigit(c, i) ==
    IF ModeDigit(WordAt(c), i) = 1 THEN Operand(c, i) ELSE MemoryIndex(c.mem, AddrByDigit(c, i))

\* C13: for every operand index i of a decoded opcode the addressing mode is
\* the digit (w / 10^(2+i)) mod 10 of the instruction word w: the decoder names
\* digit 0 Address, 1 Immediate, 2 RelativeAddress, and any other digit in an
\* operand position fails to decode, which aborts step() and run(); and the
\* instruction executed uses, for digit 0, the content of the cell the operand
\* addresses, for digit 1 the operand itself, for digit 2 the content of the
\* cell at operand + relative base (for a destination: that cell is written).
C13_AddressingModes ==
    /\ (call.op = "try_from" /\ RustRem(call.arg[1], 100) \in Opcodes) =>
            LET w == call.arg[1]
                n == OpArity(RustRem(w, 100))
                r == call.ret
            IN  /\ r.ok <=> \A i \in 0..(n - 1) : ModeDigit(w, i) \in {0, 1, 2}
                /\ r.ok => \A i \in 0..(n - 1) : r.param_modes[i + 1] = ModeName(ModeDigit(w, i))
    /\ ( /\ call.op \in {"step", "run"}
         /\ RustRem(WordAt(old), 100) \in Opcodes
         /\ \E i \in 0..(OpArity(RustRem(WordAt(old), 100)) - 1) :
                ModeDigit(WordAt(old), i) \notin {0, 1, 2} ) =>
            fault = "panic_decode" /\ cpu.mem = old.mem /\ cpu.pc = old.pc
    /\ Stepped({"Output", "ShiftRelativeBase"}) =>
            /\ fault = "none"
            /\ InstrAt(old).opcode = "Output" =>
                    cpu.output_queue = Append(old.output_queue, ValueByDigit(old, 0))
            /\ InstrAt(old).opcode = "ShiftRelativeBase" =>
                    cpu.relative_base = old.relative_base + ValueByDigit(old, 0)
    /\ Stepped({"JumpIfTrue", "JumpIfFalse"}) =>
            /\ fault = "none"
            /\ cpu.pc = IF (ValueByDigit(old, 0) # 0) <=> (InstrAt(old).opcode = "JumpIfTrue")
                        THEN ValueByDigit(old, 1)
                        ELSE old.pc + 3
    /\ (Stepped({"Add"}) /\ ModeDigit(WordAt(old), 2) # 1) =>
            /\ fault = "none"
            /\ MemoryIndex(cpu.mem, AddrByDigit(old, 2)) =
                    ValueByDigit(old, 0) + ValueByDigit(old, 1)
    /\ (Stepped({"Input"}) /\ ModeDigit(WordAt(old), 0) # 1 /\ old.input_queue # <<>>) =>
            /\ fault = "none"
            /\ MemoryIndex(cpu.mem, AddrByDigit(old, 0)) = Head(old.input_queue)

\* A relative-mode output under a non-zero relative base, whose value differs
\* from what the other two modes would give.
C13_Witness ==
    /\ Stepped({"Output"})
    /\ fault = "none"
    /\ ModeDigit(WordAt(old), 0) = 2
    /\ old.relative_base # 0
    /\ cpu.output_queue = Append(old.output_queue, MemoryIndex(old.mem, old.relative_base + Operand(old, 0)))
    /\ MemoryIndex(old.mem, old.relative_base + Operand(old, 0)) # MemoryIndex(old.mem, Operand(old, 0))
    /\ MemoryIndex(old.mem, old.relative_base + Operand(old, 0)) # Operand(old, 0)

\* The instructions that have a destination operand, which is their last.
Storing == {"Add", "Mul", "Input", "LessThan", "Equals"}
DestIndex(c) == InstrAt(c).num_params - 1

\* step() executed a storing instruction whose destination is immediate.
SteppedImmediateDest(ops) ==
    Stepped(ops) /\ ModeOf(old, DestIndex(old)) = "Immediate"

\* C14 as claimed: every step() of an add, multiply, input, less-than or equals
\* instruction whose destination is in immediate mode aborts with the encoding
\* error, whatever the input queue holds, and stores nothing.
C14_ImmediateDestFatal ==
    SteppedImmediateDest(Storing) =>
        fault = "panic_param_mode" /\ cpu.mem = old.mem

\* C14 amended: a step() of an add, multiply, less-than or equals instruction
\* whose destination is in immediate mode aborts with the encoding error and
\* stores nothing, and so does a step() of an input instruction with an
\* immediate destination while the input queue holds a value; while the input
\* queue is empty that input instruction suspends like any other: the step
\* returns normally with status WaitIO and nothing else changed.
C14_ImmediateDestOnWrite ==
    /\ SteppedImmediateDest(Storing \ {"Input"}) =>
            fault = "panic_param_mode" /\ cpu.mem = old.mem
    /\ (SteppedImmediateDest({"Input"}) /\ old.input_queue # <<>>) =>
            fault = "panic_param_mode" /\ cpu.mem = old.mem
    /\ (SteppedImmediateDest({"Input"}) /\ old.input_queue = <<>>) =>
            fault = "none" /\ cpu = [old EXCEPT !.state = "WaitIO"]

C14_Witness ==
    /\ SteppedImmediateDest({"Input"})
    /\ old.state = "WaitIO"
    /\ Len(old.input_queue) = 2
    /\ fault = "panic_param_mode"
    /\ cpu.mem = old.mem

\* The addresses probed for what an instruction stored: those the properties
\* compare and the extra cells of CPU c.
Probed(c) == Addrs \cup DOMAIN c.mem.extra

\* Memory of the CPU is the memory of old with value stored at addr, and
\* everything but memory and pc is as in old.
StoredOnly(addr, value) ==
    /\ \A x \in Probed(cpu) \cup Probed(old) \cup {addr} :
            MemoryIndex(cpu.mem, x) = IF x = addr THEN value ELSE MemoryIndex(old.mem, x)
    /\ Len(cpu.mem.initial_data) = Len(old.mem.initial_data)
    /\ cpu.input_queue = old.input_queue
    /\ cpu.output_queue = old.output_queue
    /\ cpu.relative_base = old.relative_base
    /\ cpu.state = old.state

\* What each arithmetic instruction stores for sources a and b.
Computes(op, a, b) ==
    CASE op = "Add"      -> a + b
      [] op = "Mul"      -> a * b
      [] op = "LessThan" -> IF a < b THEN 1 ELSE 0
      [] op = "Equals"   -> IF a = b THEN 1 ELSE 0

Arithmetic == {"Add", "Mul", "LessThan", "Equals"}

\* C15: a step() of add, multiply, less-than or equals (with an address
\* destination) with resolved sources a and b, both resolved in the memory as
\* it was before the step, leaves a+b, a*b, (1 if a<b else 0), (1 if a=b else
\* 0) in the destination cell, also when that cell is one of the sources or one
\* of the instruction's operand cells, changes no other cell, advances pc by
\* exactly 4 and leaves the queues, the relative base and the status alone.
C15_Arithmetic ==
    (Stepped(Arithmetic) /\ ModeOf(old, 2) # "Immediate") =>
        /\ fault = "none"
        /\ StoredOnly(EffectiveAddr(old, 2),
                      Computes(InstrAt(old).opcode, Resolved(old, 0), Resolved(old, 1)))
        /\ cpu.pc = old.pc + 4

\* A multiply whose destination is its second source and its own second
\* operand cell, and whose product differs from what the cell held.
C15_Witness ==
    /\ Stepped({"Mul"})
    /\ fault = "none"
    /\ EffectiveAddr(old, 2) = EffectiveAddr(old, 1)
    /\ EffectiveAddr(old, 2) = old.pc + 2
    /\ MemoryIndex(cpu.mem, EffectiveAddr(old, 2)) = Resolved(old, 0) * Resolved(old, 1)
    /\ MemoryIndex(cpu.mem, EffectiveAddr(old, 2)) # MemoryIndex(old.mem, EffectiveAddr(old, 2))
    /\ cpu.pc = old.pc + 4

\* The jump at old.pc is taken.
JumpTaken ==
    \/ InstrAt(old).opcode = "JumpIfTrue" /\ Resolved(old, 0) # 0
    \/ InstrAt(old).opcode = "JumpIfFalse" /\ Resolved(old, 0) = 0

\* C16: a step() of jump-if-true sets pc to the resolved second operand when
\* the resolved first operand is non-zero and otherwise to pc+3; a step() of
\* jump-if-false sets pc to the resolved second operand when the first is zero
\* and otherwise to pc+3; memory, relative base, both queues and the status are
\* as before. (Targets are addresses: the case of a negative second operand is
\* that of C11.)
C16_Jumps ==
    (Stepped({"JumpIfTrue", "JumpIfFalse"}) /\ (JumpTaken => Resolved(old, 1) >= 0)) =>
        /\ fault = "none"
        /\ cpu.pc = IF JumpTaken THEN Resolved(old, 1) ELSE old.pc + 3
        /\ cpu = [old EXCEPT !.pc = cpu.pc]

\* A jump-if-false taken to a target read from memory, beyond the image.
C16_Witness ==
    /\ Stepped({"JumpIfFalse"})
    /\ fault = "none"
    /\ JumpTaken
    /\ ModeOf(old, 1) = "Address"
    /\ cpu.pc = 17
    /\ cpu.pc # old.pc + 3
    /\ cpu.pc # Operand(old, 1)

\* C17: a step() of an output instruction appends exactly one value, the
\* resolved operand, to the back of the output queue and advances pc by 2; it
\* returns normally with the status it had, however many values the output
\* queue already holds, and leaves memory, relative base and input queue alone.
C17_Output ==
    Stepped({"Output"}) =>
        /\ fault = "none"
        /\ cpu = [old EXCEPT !.output_queue = Append(@, Resolved(old, 0)), !.pc = @ + 2]
        /\ Len(cpu.output_queue) = Len(old.output_queue) + 1
        /\ cpu.state = old.state

\* An output onto a queue that already holds a value.
C17_Witness ==
    /\ Stepped({"Output"})
    /\ fault = "none"
    /\ old.output_queue # <<>>
    /\ old.state = "Running"
    /\ cpu.state = "Running"
    /\ cpu.output_queue = Append(old.output_queue, Resolved(old, 0))

\* C18: a step() of adjust-relative-base adds its resolved operand (negative
\* ones too) to the relative base and advances pc by 2, changing nothing else;
\* a value stored through a relative-mode destination operand k is in the cell
\* at base+k right after the step; and every later output instruction that
\* resolves, in relative or in positional mode, to an address stored to before
\* yields the value most recently stored there, beyond the image as inside it.
C18_RelativeBase ==
    /\ Stepped({"ShiftRelativeBase"}) =>
            /\ fault = "none"
            /\ cpu = [old EXCEPT !.relative_base = @ + Resolved(old, 0), !.pc = @ + 2]
    /\ ( /\ Stepped(Arithmetic) \/ (Stepped({"Input"}) /\ old.input_queue # <<>>)
         /\ ModeOf(old, DestIndex(old)) = "RelativeAddress" ) =>
            /\ fault = "none"
            /\ old.relative_base + Operand(old, DestIndex(old)) \in DOMAIN written
            /\ MemoryIndex(cpu.mem, old.relative_base + Operand(old, DestIndex(old))) =
                    written[old.relative_base + Operand(old, DestIndex(old))]
            /\ Stepped({"Input"}) =>
                    written[old.relative_base + Operand(old, 0)] = Head(old.input_queue)
    /\ ( /\ Stepped({"Output"})
         /\ ModeOf(old, 0) # "Immediate"
         /\ EffectiveAddr(old, 0) \in DOMAIN written ) =>
            /\ fault = "none"
            /\ cpu.output_queue = Append(old.output_queue, written[EffectiveAddr(old, 0)])

\* After the base was moved to 20 and back by 5, a relative read of operand 6
\* yields the value an input stored through relative operand 1 beyond the image.
C18_Witness ==
    /\ Stepped({"Output"})
    /\ fault = "none"
    /\ ModeOf(old, 0) = "RelativeAddress"
    /\ old.relative_base = 15
    /\ Operand(old, 0) = 6
    /\ 21 \in DOMAIN written
    /\ Len(image) <= 21
    /\ cpu.output_queue = <<written[21], written[21]>>
    /\ written[21] = 17

\* C19: a step() of a halt instruction sets the status to Halted and leaves pc
\* (still on the halt word), memory, relative base and both queues as they
\* were; the values in the output queue of a Halted CPU are still handed out by
\* consume_output_all.
C19_Halt ==
    /\ Stepped({"Halt"}) =>
            /\ fault = "none"
            /\ cpu = [old EXCEPT !.state = "Halted"]
            /\ cpu.pc = old.pc
            /\ InstrAt(cpu).opcode = "Halt"
    /\ (call.op = "consume_output_all" /\ old.state = "Halted") =>
            /\ fault = "none"
            /\ call.ret = old.output_queue
            /\ cpu = [old EXCEPT !.output_queue = <<>>]

C19_Witness ==
    /\ Returned("consume_output_all")
    /\ old.state = "Halted"
    /\ old_halted_by = "halt"
    /\ InstrAt(old).opcode = "Halt"
    /\ Len(call.ret) = 2
    /\ cpu.output_queue = <<>>

\* C20: run() on a fresh CPU with the program [109,1,204,-1,1001,100,1,100,
\* 1008,100,16,101,1006,101,0,99] and no input never aborts, and when it
\* returns the status is Halted and the output queue equals the program's
\* image, value for value and in order.
C20_Quine ==
    /\ (InRun /\ old = CpuNew(Quine)) => fault = "none"
    /\ (call.op = "run" /\ old = CpuNew(Quine)) =>
            /\ fault = "none"
            /\ cpu.state = "Halted"
            /\ cpu.output_queue = Quine
            /\ cpu.output_queue = image

C20_Witness ==
    /\ Returned("run")
    /\ old = CpuNew(Quine)
    /\ cpu.state = "Halted"
    /\ Len(cpu.output_queue) = 16
    /\ cpu.output_queue = Quine
    /\ DOMAIN cpu.mem.extra = {100, 101}

\* ------------------------------------------------------------ large values
\* run() was called on the CPU as constructed and has returned.
RanFresh == call.op = "run" /\ old_halted_by = "new"

\* The remainder by p (below 46340) of the magnitude given by limbs.
RECURSIVE LimbsModulo(_, _)
LimbsModulo(limbs, p) ==
    IF limbs = <<>> THEN 0
    ELSE (LimbsModulo(Tail(limbs), p) * LimbBase + Head(limbs)) % p

\* Primes whose product exceeds LimbBase^5: a five-limb magnitude is
\* determined by its remainders by them.
CheckPrimes == {46337, 46327, 46309, 46307, 46301}

\* The value v is exactly the product a * b.
IsProduct(v, a, b) ==
    IF ProductFits(a, b) THEN v = a * b
    ELSE /\ v.neg = ((a < 0) # (b < 0))
         /\ Len(v.limbs) = 5
         /\ \A i \in 1..5 : v.limbs[i] \in 0..(LimbBase - 1)
         /\ \A p \in CheckPrimes :
                LimbsModulo(v.limbs, p) = ((Abs(a) % p) * (Abs(b) % p)) % p

\* C21: run() on a fresh CPU with [1102,a,b,7,4,7,99,0] halts with exactly one
\* output value, the exact product a*b, also when the product exceeds the
\* 32-bit range; for a = b = 34915192 the value is 1219070632396864, whose
\* decimal representation has 16 digits, and consume_output_last hands it out.
C21_LargeProduct ==
    /\ (RanFresh /\ image[1] = 1102) =>
            /\ fault = "none"
            /\ cpu.state = "Halted"
            /\ Len(cpu.output_queue) = 1
            /\ IsProduct(cpu.output_queue[1], image[2], image[3])
            /\ image = MulProgram(34915192, 34915192) =>
                    /\ to_string(cpu.output_queue[1]) =
                            <<"1", "2", "1", "9", "0", "7", "0", "6",
                              "3", "2", "3", "9", "6", "8", "6", "4">>
                    /\ Len(to_string(cpu.output_queue[1])) = 16
    /\ ( /\ call.op = "consume_output_last"
         /\ image = MulProgram(34915192, 34915192)
         /\ Len(old.output_queue) = 1 ) =>
            /\ fault = "none"
            /\ Len(call.ret) = 1
            /\ Len(to_string(call.ret[1])) = 16
            /\ cpu.output_queue = <<>>

C21_Witness ==
    /\ Returned("consume_output_last")
    /\ image = MulProgram(34915192, 34915192)
    /\ old.state = "Halted"
    /\ Len(call.ret) = 1
    /\ call.ret[1].limbs = <<6864, 3239, 706, 1219, 0>>
    /\ ~call.ret[1].neg

\* C22: run() on a fresh CPU with [104,l,99] halts with the output queue
\* holding exactly one value, the operand l itself; for l = 1125899906842624
\* that value reads 1125899906842624, and consume_output_all hands it out.
C22_LiteralOutput ==
    /\ (RanFresh /\ image[1] = 104) =>
            /\ fault = "none"
            /\ cpu.state = "Halted"
            /\ cpu.pc = 2
            /\ Len(cpu.output_queue) = 1
            /\ cpu.output_queue = <<image[2]>>
            /\ ~image[2].neg =>
                    to_string(cpu.output_queue[1]) =
                        <<"1", "1", "2", "5", "8", "9", "9", "9",
                          "0", "6", "8", "4", "2", "6", "2", "4">>
    /\ (call.op = "consume_output_all" /\ image[1] = 104 /\ Len(old.output_queue) = 1) =>
            /\ fault = "none"
            /\ call.ret = <<image[2]>>
            /\ cpu.output_queue = <<>>

C22_Witness ==
    /\ Returned("consume_output_all")
    /\ image[1] = 104
    /\ old.state = "Halted"
    /\ Len(call.ret) = 1
    /\ call.ret[1] = [neg |-> FALSE, limbs |-> <<2624, 684, 8999, 1125, 0>>]

\* ------------------------------------------------------------ the queues
\* The call left everything but the output queue as it found it.
OnlyOutputQueue == cpu = [old EXCEPT !.output_queue = cpu.output_queue]

\* C23: consume_output_n(n) is all-or-nothing: with fewer than n values queued
\* it returns None and leaves the queue as it was; with n or more it returns
\* the first n in order and leaves the rest in order. Nothing else changes.
C23_ConsumeOutputN ==
    call.op = "consume_output_n" =>
        LET n == call.arg[1]
            queue == old.output_queue
        IN  /\ fault = "none"
            /\ OnlyOutputQueue
            /\ IF Len(queue) < n
               THEN /\ call.ret = <<>>
                    /\ cpu.output_queue = queue
               ELSE /\ Len(call.ret) = 1
                    /\ Len(call.ret[1]) = n
                    /\ call.ret[1] \o cpu.output_queue = queue

C23_Witness ==
    /\ Returned("consume_output_n")
    /\ call.arg = <<1>>
    /\ old.output_queue = <<5, 6, 7>>
    /\ call.ret = <<(<<5>>)>>
    /\ cpu.output_queue = <<6, 7>>

\* C24: consume_output_last() returns the newest queued value (None when the
\* queue is empty) and leaves the queue empty; consume_output() removes and
\* returns the oldest value only (None, and no change, when there is none).
C24_ConsumeOutputLast ==
    /\ call.op = "consume_output_last" =>
            /\ fault = "none"
            /\ OnlyOutputQueue
            /\ cpu.output_queue = <<>>
            /\ call.ret = IF old.output_queue = <<>> THEN <<>>
                          ELSE <<old.output_queue[Len(old.output_queue)]>>
    /\ call.op = "consume_output" =>
            /\ fault = "none"
            /\ OnlyOutputQueue
            /\ IF old.output_queue = <<>>
               THEN call.ret = <<>> /\ cpu.output_queue = <<>>
               ELSE call.ret \o cpu.output_queue = old.output_queue /\ Len(call.ret) = 1

C24_Witness ==
    /\ Returned("consume_output_last")
    /\ old.output_queue = <<5, 6, 7>>
    /\ call.ret = <<7>>
    /\ cpu.output_queue = <<>>

\* ------------------------------------------------------------ reset
\* C25: after reset(p), whatever the CPU was, it is the CPU that CPU::new(p)
\* makes: pc 0, relative base 0, both queues empty, status Halted, memory
\* reading p on p's addresses and 0 beyond them; and it runs as a new CPU runs.
C25_ResetIsNew ==
    call.op = "reset" =>
        LET program == call.arg
        IN  /\ fault = "none"
            /\ cpu = CpuNew(program)
            /\ cpu.pc = 0
            /\ cpu.relative_base = 0
            /\ cpu.input_queue = <<>>
            /\ cpu.output_queue = <<>>
            /\ cpu.state = "Halted"
            /\ \A addr \in 0..MaxAddr :
                    MemoryIndex(cpu.mem, addr) =
                        IF addr < Len(program) THEN program[addr + 1] ELSE 0
            /\ run(cpu) = run(CpuNew(program))
            /\ step(cpu) = step(CpuNew(program))

\* A reset, to another program, of a CPU with values queued on both sides
\* and a cell written beyond its image.
C25_Witness ==
    /\ Returned("reset")
    /\ old.input_queue # <<>>
    /\ old.output_queue # <<>>
    /\ old.mem.extra # NoExtra
    /\ call.arg # old.mem.initial_data
    /\ cpu = CpuNew(call.arg)

\* ------------------------------------------------------------ the order of the queues
IsPrefix(s, t) == Len(s) <= Len(t) /\ SubSeq(t, 1, Len(s)) = s
IsSuffix(s, t) == Len(s) <= Len(t) /\ SubSeq(t, Len(t) - Len(s) + 1, Len(t)) = s

\* The step of the behaviour is the engine's: run() entered, iterated or
\* returned, or step() called.
EngineStep == call'.op \in {"run_loop", "run", "step"}
\* The engine executes one instruction in this step.
OneInstruction == (InRun /\ InRun') \/ call'.op = "step"
\* What the client appends with the call that ends this step.
Appended ==
    CASE call'.op = "send_input" -> call'.arg
      [] call'.op = "send_input_iter" -> call'.arg[1]
      [] call'.op = "send_input_string" -> CharCodes(call'.arg[1])
\* What the call that ends this step removes from the output queue.
Removed ==
    CASE call'.op = "consume_output" -> call'.ret
      [] call'.op = "consume_output_n" -> IF call'.ret = <<>> THEN <<>> ELSE call'.ret[1]
      [] call'.op = "consume_output_all" -> call'.ret
      [] call'.op = "consume_output_last" -> cpu.output_queue

C26_Step ==
    /\ EngineStep =>
            /\ IsSuffix(cpu'.input_queue, cpu.input_queue)
            /\ IsPrefix(cpu.output_queue, cpu'.output_queue)
    /\ (OneInstruction /\ fault' = "none" /\ InstrAt(cpu).ok) =>
            /\ (InstrAt(cpu).opcode = "Input" /\ cpu.input_queue # <<>>) =>
                    /\ cpu'.input_queue = Tail(cpu.input_queue)
                    /\ \E addr \in DOMAIN written' :
                            /\ written'[addr] = Head(cpu.input_queue)
                            /\ MemoryIndex(cpu'.mem, addr) = Head(cpu.input_queue)
                            /\ addr = write_param(cpu, 0, InstrAt(cpu), 0).stores[1][1]
            /\ InstrAt(cpu).opcode # "Input" => cpu'.input_queue = cpu.input_queue
            /\ InstrAt(cpu).opcode = "Output" =>
                    cpu'.output_queue = Append(cpu.output_queue, read_param(cpu, 0, InstrAt(cpu)))
            /\ InstrAt(cpu).opcode # "Output" => cpu'.output_queue = cpu.output_queue
    /\ call'.op \in {"send_input", "send_input_iter", "send_input_string"} =>
            /\ cpu' = [cpu EXCEPT !.input_queue = cpu.input_queue \o Appended]
    /\ call'.op \in {"consume_output", "consume_output_n", "consume_output_all",
                     "consume_output_last"} =>
            /\ cpu' = [cpu EXCEPT !.output_queue = cpu'.output_queue]
            /\ Removed \o cpu'.output_queue = cpu.output_queue
            /\ call'.op = "consume_output_last" =>
                    /\ cpu'.output_queue = <<>>
                    /\ call'.ret = IF cpu.output_queue = <<>> THEN <<>>
                                   ELSE <<cpu.output_queue[Len(cpu.output_queue)]>>
    /\ call'.op \in {"peek_input_first", "peek_output_last"} => cpu' = cpu
    /\ (call'.op = "run" /\ fault' = "none" /\ image = EchoLoop /\ old'.pc \in {0, 4}) =>
            /\ cpu'.output_queue = old'.output_queue \o old'.input_queue
            /\ cpu'.input_queue = <<>>

\* C26: in every step of every behaviour, step()/run() take from the front of
\* the input queue or leave it, and append to the output queue or leave it; an
\* input instruction stores the oldest value the client appended; the client's
\* sends append at the back; the client's consumes take from the front, in the
\* order of emission; the echoing loop emits its inputs in the order sent.
C26_QueueOrder == [][C26_Step]_vars

C26_Witness ==
    /\ Returned("run")
    /\ image = EchoLoop
    /\ old.input_queue = <<65, 10, 17>>
    /\ old.output_queue = <<>>
    /\ cpu.output_queue = <<65, 10, 17>>
    /\ cpu.input_queue = <<>>

\* ------------------------------------------------------------ supplying input
\* The client's three ways of appending input.
Sends == {"send_input", "send_input_iter", "send_input_string"}

\* C28: a send changes the input queue only, by appending at its back: pc,
\* memory, relative base, output queue and status are what they were, so a
\* CPU suspended on an input instruction is still suspended on it, now with
\* input to read, and moves on only in a later step() or run().
C28_SendOnlyQueues ==
    /\ call.op \in Sends =>
            /\ fault = "none"
            /\ cpu = [old EXCEPT !.input_queue = cpu.input_queue]
            /\ IsPrefix(old.input_queue, cpu.input_queue)
            /\ cpu.state = old.state
            /\ cpu.pc = old.pc
            /\ cpu.mem = old.mem
            /\ cpu.output_queue = old.output_queue
            /\ old.state = "WaitIO" =>
                    /\ cpu.state = "WaitIO"
                    /\ InstrAt(cpu).opcode = "Input"
    \* suspended with input queued: the value is taken by step() only
    /\ (cpu.state = "WaitIO" /\ cpu.input_queue # <<>> /\ fault = "none" /\ ~InRun) =>
            /\ step(cpu).fault = "none"
            /\ step(cpu).cpu.state = "Running"
            /\ step(cpu).cpu.pc = cpu.pc + 2
            /\ step(cpu).cpu.input_queue = Tail(cpu.input_queue)

C28_Witness ==
    /\ Returned("send_input")
    /\ call.arg = <<17>>
    /\ image = Echo
    /\ old = EchoSuspended
    /\ cpu = EchoFed(17)

\* ------------------------------------------------------------ decoding what memory holds
\* The word the image holds at an address.
ImageWord(addr) == IF addr >= 0 /\ addr < Len(image) THEN image[addr + 1] ELSE 0
\* The word last written at an address by the program or by write_mem, or the
\* image's word when none was.
CurrentWord(addr) == IF addr \in DOMAIN written THEN written[addr] ELSE ImageWord(addr)

C29_Step ==
    call'.op = "step" =>
        LET word == CurrentWord(cpu.pc)
            instr == InstructionTryFrom(word)
        IN  /\ ~instr.ok => fault' = "panic_decode" /\ cpu' = cpu
            /\ (instr.ok /\ cpu.state = "Halted") => fault' = "panic_halted"
            /\ (instr.ok /\ cpu.state # "Halted") =>
                    /\ fault' = exec_opcode(cpu, instr).fault
                    /\ cpu' = exec_opcode(cpu, instr).cpu
                    /\ (instr.opcode = "Halt") = (fault' = "none" /\ cpu'.state = "Halted")

\* C29: every step() decodes and executes the word that memory holds at pc
\* when it is called: the word last written there by the program or by
\* write_mem, the image's word only when none was written; run() on the
\* program that patches the word ahead of pc halts on the patched word.
C29_DecodesCurrentMemory ==
    [][ /\ C29_Step
        /\ ( /\ call'.op = "run"
             /\ image = Patching
             /\ old'.pc = 0
             /\ old'.input_queue # <<>>
             /\ old'.mem = MemoryNew(Patching) ) =>
                /\ fault' = "none"
                /\ cpu'.state = "Halted"
                /\ cpu'.pc = 6
                /\ MemoryIndex(cpu'.mem, 6) = 99 ]_vars

\* step() on the word the program has patched: the image holds 55 there,
\* memory holds 99, and the CPU halts.
C29_Witness ==
    /\ Returned("step")
    /\ image = Patching
    /\ ImageWord(6) = 55
    /\ old.pc = 6
    /\ old.state = "Running"
    /\ written[6] = 99
    /\ cpu.state = "Halted"

\* ------------------------------------------------------------ run() after the halt
\* The CPU before the call had halted on the halt instruction it still stands on.
HaltedOnHalt ==
    /\ old.state = "Halted"
    /\ old_halted_by = "halt"
    /\ InstrAt(old).ok
    /\ InstrAt(old).opcode = "Halt"

\* C30: run() on a CPU that has halted on a halt instruction returns without
\* panic, is_halted() is true after it, and pc, memory, relative base and both
\* queues are what they were, input sent after the halt included; so a caller
\* may run it again in every round, as day7's loop does.
C30_RunAfterHalt ==
    (call.op = "run" /\ HaltedOnHalt) =>
        /\ fault = "none"
        /\ cpu.state = "Halted"
        /\ cpu.pc = old.pc
        /\ cpu.mem = old.mem
        /\ cpu.relative_base = old.relative_base
        /\ cpu.input_queue = old.input_queue
        /\ cpu.output_queue = old.output_queue
        /\ run(cpu) = Done(cpu, <<>>)
        /\ run(run(cpu).cpu) = Done(old, <<>>)

\* run() on a halted CPU that was sent input after it halted and still
\* holds its output.
C30_Witness ==
    /\ Returned("run")
    /\ HaltedOnHalt
    /\ old.pc > 0
    /\ old.input_queue # <<>>
    /\ old.output_queue # <<>>
    /\ cpu.state = "Halted"
    /\ cpu.input_queue = old.input_queue

\* ------------------------------------------------------------ parked on the input instruction
\* The CPU is parked: nothing to read, and the word at pc has opcode 3.
Parked(c) == c.input_queue = <<>> /\ RustRem(MemoryIndex(c.mem, c.pc), 100) = 3
\* step() or run() has returned and left the status WaitIO.
LeftWaiting(ops) == call.op \in ops /\ fault = "none" /\ cpu.state = "WaitIO"

\* C31 as claimed: whenever step() or run() returns leaving status WaitIO, the
\* input queue is empty and the word at pc has opcode 3.
C31_ParkedOnInput == LeftWaiting({"step", "run"}) => Parked(cpu)

\* C31 amended: whenever run() returns leaving status WaitIO, and whenever a
\* step() that executed an input instruction does, the input queue is empty
\* and the word at pc has opcode 3; a step() that leaves WaitIO after any
\* other instruction found the status WaitIO and left it as it was.
C31_ParkedAfterInput ==
    /\ LeftWaiting({"run"}) => Parked(cpu)
    /\ (LeftWaiting({"step"}) /\ InstrAt(old).opcode = "Input") =>
            Parked(cpu) /\ cpu.pc = old.pc
    /\ (LeftWaiting({"step"}) /\ InstrAt(old).opcode # "Input") =>
            old.state = "WaitIO" /\ 0 \in DOMAIN written

\* step() on the echo program, suspended, fed, and its input instruction then
\* overwritten by an output instruction: WaitIO is left with input queued and
\* pc on the output instruction at 2.
C31_Witness ==
    /\ LeftWaiting({"step"})
    /\ image = Echo
    /\ MemoryIndex(old.mem, 0) = 104
    /\ old.state = "WaitIO"
    /\ cpu.pc = 2
    /\ cpu.input_queue # <<>>
    /\ ~Parked(cpu)

\* ------------------------------------------------------------ run() and repeated step()
\* The client's loop: step() once, and again for as long as the status is
\* Running (and no call has panicked).
step_repeatedly(c) == run_loop(step(c), MaxRunSteps - 1)
\* run() has ended as the client's loop of step() on the same CPU ends.
RunAsSteps ==
    /\ fault = step_repeatedly(old).fault
    /\ cpu = step_repeatedly(old).cpu

\* C32 as claimed: run() on a CPU whose status is Running or WaitIO ends in
\* the pc, memory, relative base, queues and status in which step() once, and
\* again while the status is Running, ends.
C32_RunIsRepeatedStep ==
    (call.op = "run" /\ old.state \in {"Running", "WaitIO"}) => RunAsSteps

\* C32 amended: the same, for a CPU whose status is Running, or WaitIO with
\* the word at pc still an input instruction.
C32_RunIsRepeatedStepParked ==
    ( /\ call.op = "run"
      /\ \/ old.state = "Running"
         \/ old.state = "WaitIO" /\ InstrAt(old).opcode = "Input" ) => RunAsSteps

\* run() on the echoing loop suspended with two values queued: four
\* instructions and a jump executed, then suspended again.
C32_Witness ==
    /\ Returned("run")
    /\ image = EchoLoop
    /\ old.state = "WaitIO"
    /\ Len(old.input_queue) = 2
    /\ old.output_queue = <<>>
    /\ cpu.output_queue = old.input_queue
    /\ cpu.state = "WaitIO"
    /\ cpu = step_repeatedly(old).cpu

\* ------------------------------------------------------------ input in one piece or in pieces
\* The call's outcome is one the bounds let the model follow to its end.
Followed(r) == r.fault \notin {"no_return", "unexplored"}
\* The two outcomes are the same to the client: the same panic, or the same CPU.
SameOutcome(r1, r2) ==
    /\ r1.fault = r2.fault
    /\ r1.fault = "none" => r1.cpu = r2.cpu

\* The client that enqueues all of s and calls run() once.
send_all_then_run(c, s) == run(send_input_iter(c, s).cpu)

\* The client that enqueues the values of s one at a time, with a run() after
\* each; a panic ends it.
RECURSIVE send_each_then_run(_, _)
send_each_then_run(r, s) ==
    IF s = <<>> \/ r.fault # "none" THEN r
    ELSE LET ran == run(send_input(r.cpu, Head(s)).cpu)
         IN  send_each_then_run([ran EXCEPT !.stores = r.stores \o ran.stores], Tail(s))

\* C33: from every reachable CPU and for every sequence s of one or more
\* values, sending all of s and calling run() once ends in the output queue,
\* memory, pc, relative base, remaining input and status in which sending the
\* values one at a time with a run() after each ends (or both panic alike).
C33_SplitInvariant ==
    fault = "none" =>
        \A s \in InputSeqs :
            (Followed(send_all_then_run(cpu, s)) /\ Followed(send_each_then_run(Done(cpu, <<>>), s))) =>
                SameOutcome(send_all_then_run(cpu, s), send_each_then_run(Done(cpu, <<>>), s))

\* Two values delivered one at a time to the program that reads two and
\* emits them in reverse: suspended after the first, with 17 stored, and
\* halted by the run() after the second, where the one run() after both
\* values ends too.
C33_Witness ==
    /\ Returned("run")
    /\ image = <<3, 9, 3, 10, 4, 10, 4, 9, 99>>
    /\ old.state = "WaitIO"
    /\ old.input_queue = <<-1>>
    /\ MemoryIndex(old.mem, 9) = 17
    /\ cpu.state = "Halted"
    /\ cpu.output_queue = <<-1, 17>>
    /\ cpu = send_each_then_run(Done(CpuNew(image), <<>>), <<17, -1>>).cpu
    /\ cpu = send_all_then_run(CpuNew(image), <<17, -1>>).cpu

\* ------------------------------------------------------------ where the status changes
\* The client's operations that are not the engine's.
AdapterOps ==
    {"send_input", "send_input_iter", "send_input_string", "peek_input_first",
     "peek_output_last", "consume_output_n", "consume_output", "consume_output_last",
     "consume_output_all", "read_mem", "write_mem"}
\* The status an instruction leaves, executed on CPU c.
StatusAfter(c) ==
    LET opcode == InstrAt(c).opcode
    IN  IF opcode = "Input" THEN (IF c.input_queue # <<>> THEN "Running" ELSE "WaitIO")
        ELSE IF opcode = "Halt" THEN "Halted"
        ELSE c.state

C34_Step ==
    \* run() entered: Running, and nothing else touched
    /\ (~InRun /\ InRun') => cpu' = [cpu EXCEPT !.state = "Running"]
    \* run() returns what its last instruction left
    /\ (InRun /\ call'.op = "run") => cpu' = cpu /\ cpu.state \in {"Halted", "WaitIO"}
    \* one instruction, in run() or by step()
    /\ (OneInstruction /\ fault' = "none") => cpu'.state = StatusAfter(cpu)
    /\ (OneInstruction /\ fault' # "none") => cpu'.state = cpu.state
    /\ call'.op = "reset" => cpu'.state = "Halted"
    /\ call'.op \in AdapterOps => cpu'.state = cpu.state /\ fault' = "none"

\* C34: in every step of every behaviour the status changes only where the
\* claim says: run() sets Running on entry; an input instruction sets Running
\* when it reads a value and WaitIO when there is none; a halt instruction and
\* reset() set Halted; every other instruction and every adapter operation
\* leaves the status as it was.
C34_StatusChanges == [][C34_Step]_vars

\* An output instruction, written over the input instruction the CPU was
\* suspended on, executed by step(): it emits and leaves the status WaitIO.
C34_Witness ==
    /\ Returned("step")
    /\ old.state = "WaitIO"
    /\ InstrAt(old).opcode = "Output"
    /\ cpu.output_queue = Append(old.output_queue, 50)
    /\ cpu.pc = old.pc + 2
    /\ cpu.state = "WaitIO"

\* ------------------------------------------------------------ the network: one instruction each
\* How often step() was called on the i-th computer in this iteration.
RECURSIVE TimesStepped(_, _)
TimesStepped(steps, i) ==
    IF steps = <<>> THEN 0
    ELSE (IF Head(steps) = i THEN 1 ELSE 0) + TimesStepped(Tail(steps), i)

\* The first loop of this iteration is through with the i-th computer.
SteppedThisTick(i) ==
    \/ net.phase \in {"collect", "forward", "forward_y", "idle", "nat", "nat_y", "returned"}
    \/ net.phase \in {"step", "feed", "retry"} /\ i < net.i

\* C35: in the network loop the computers are stepped in index order, one
\* instruction each per iteration: a computer that step() leaves waiting for
\* input is given -1 and stepped again, and is then not waiting (the assertion
\* after the second step never fails); outside that exchange no computer is
\* waiting for input, so none is at the end of an iteration.
C35_OneInstructionEach ==
    net.part # 0 /\ net.phase # "build" =>
        /\ ~(fault = "panic_assert" /\ call.op = "step")
        /\ \A i \in DOMAIN cpu :
              cpu[i].state = "WaitIO" => net.phase \in {"feed", "retry"} /\ i = net.i
        /\ \A p, q \in DOMAIN net.steps : p < q => net.steps[p] <= net.steps[q]
        /\ fault = "none" =>
              \A i \in DOMAIN cpu :
                 IF SteppedThisTick(i)
                 THEN /\ TimesStepped(net.steps, i) = IF i \in net.fed THEN 2 ELSE 1
                      /\ net.ran[i] = 1
                 ELSE /\ TimesStepped(net.steps, i) =
                            IF i = net.i /\ net.phase \in {"feed", "retry"} THEN 1 ELSE 0
                      /\ net.ran[i] = 0

\* The second computer alone was given -1 in this iteration and runs again,
\* the first loop being over.
C35_Witness ==
    /\ net.part = 1
    /\ fault = "none"
    /\ net.phase = "collect"
    /\ net.i = 1
    /\ net.fed = {2}
    /\ net.steps = <<1, 2, 2, 3>>
    /\ cpu[2].state = "Running"
    /\ cpu[2].input_queue = <<>>
    /\ MemoryIndex(cpu[2].mem, 56) = -1

\* ------------------------------------------------------------ the network: packets in one piece
\* The value the tag t stands for.
Tagged(t) ==
    IF t[1] = "filler" THEN -1
    ELSE IF t[1] = "x" THEN net.log[t[2]].x ELSE net.log[t[2]].y

\* The driver is between the two send_input calls of the packet numbered k,
\* which goes to the i-th computer.
BetweenXAndY(i, k) ==
    /\ net.phase \in {"forward_y", "nat_y"}
    /\ k = net.sent
    /\ net.log[k].dest_id + 1 = i

\* The input queue of the i-th computer holds what its tags say, and the tags
\* are: the y of a packet whose x was consumed, if any; whole packets, x then
\* y; and last the x of the packet being sent, if one is. A -1 is there only
\* alone, for the computer being stepped again.
InOnePiece(i) ==
    LET q == cpu[i].input_queue
        t == net.tags[i]
    IN  /\ Len(t) = Len(q)
        /\ \A p \in DOMAIN t :
              /\ q[p] = Tagged(t[p])
              /\ t[p][1] = "filler" =>
                    Len(t) = 1 /\ net.phase = "retry" /\ net.i = i
              /\ t[p][1] \in {"x", "y"} => net.log[t[p][2]].dest_id + 1 = i
              /\ t[p][1] = "x" =>
                    IF p < Len(t) THEN t[p + 1] = <<"y", t[p][2]>>
                    ELSE BetweenXAndY(i, t[p][2])
              /\ t[p][1] = "y" => p = 1 \/ t[p - 1] = <<"x", t[p][2]>>

\* C36: a packet for a computer is sent to it as x and then y, with nothing in
\* between, once every computer has been stepped in this iteration: in every
\* state each input queue holds whole packets only (but for a y whose x was
\* read, and the x of the packet being sent), in the order sent, with no -1
\* of the driver and no value of another packet between an x and its y.
C36_PacketsInOnePiece ==
    net.part # 0 /\ net.phase # "build" /\ fault = "none" =>
        /\ \A i \in DOMAIN cpu : InOnePiece(i)
        /\ net.forwarded > 0 => \A i \in DOMAIN cpu : net.ran[i] = 1
        /\ net.phase \in {"forward", "forward_y"} =>
              net.forwarded = net.j - 1 + (IF net.phase = "forward_y" THEN 1 ELSE 0)
        /\ net.phase \in {"idle", "nat", "nat_y"} => net.forwarded = Len(net.packets)
        /\ net.phase = "forward" /\ net.j > 1 =>
              LET packet == net.packets[net.j - 1]
                  q == cpu[packet.dest_id + 1].input_queue
              IN  /\ packet.dest_id # NatAddress
                  /\ net.log[net.sent] = packet
                  /\ Len(q) >= 2
                  /\ q[Len(q) - 1] = packet.x
                  /\ q[Len(q)] = packet.y

\* Two packets were sent to the second computer in one iteration, and it has
\* read neither.
C36_Witness ==
    /\ fault = "none"
    /\ net.phase = "forward"
    /\ net.packets = <<[dest_id |-> 1, x |-> 10, y |-> 21], [dest_id |-> 1, x |-> 12, y |-> 23]>>
    /\ net.j = 3
    /\ cpu[2].input_queue = <<10, 21, 12, 23>>
    /\ net.tags[2] = << <<"x", 1>>, <<"y", 1>>, <<"x", 2>>, <<"y", 2>> >>
    /\ \A i \in DOMAIN cpu : net.ran[i] = 1

\* ------------------------------------------------------------ the network: the NAT
\* In this iteration no packet was forwarded from computer to computer, and
\* now, the packets forwarded, every input queue is empty.
QuietTick == net.forwarded = 0 /\ \A i \in DOMAIN cpu : cpu[i].input_queue = <<>>

\* The computers, the first of them sent value.
SentToFirst(value) == [cpu EXCEPT ![1].input_queue = Append(@, value)]

C37_Step ==
    net.part = 2 /\ fault = "none" =>
        \* looking at the queues consumes nothing, and the counter counts the
        \* quiet iterations in a row
        /\ net.phase = "idle" =>
              /\ cpu' = cpu
              /\ net'.idle_counter = IF QuietTick THEN net.idle_counter + 1 ELSE 0
              /\ net'.quiet = IF QuietTick THEN net.quiet + 1 ELSE 0
        \* the NAT sends only after idle_threshold quiet iterations in a row,
        \* and sends the x of the packet captured last
        /\ net.phase = "nat" /\ cpu' # cpu =>
              /\ fault' = "none"
              /\ net.quiet >= idle_threshold
              /\ net.captured # <<>>
              /\ cpu' = SentToFirst(net.captured[1].x)
              /\ net'.phase = "nat_y"
              /\ net'.captured = net.captured
        \* then its y; it returns that y when the delivery before had the same
        \* y, else empties its buffer and starts counting again
        /\ net.phase = "nat_y" =>
              /\ fault' = "none"
              /\ cpu' = SentToFirst(net.captured[1].y)
              /\ net'.delivered = Append(net.delivered, net.captured[1])
              /\ IF net.delivered # <<>> /\
                    net.delivered[Len(net.delivered)].y = net.captured[1].y
                 THEN net'.phase = "returned" /\ net'.result = <<net.captured[1].y>>
                 ELSE /\ net'.phase = "step"
                      /\ net'.result = <<>>
                      /\ net'.nat_packet = <<>>
                      /\ net'.idle_counter = 0
                      /\ net'.nat_last_delivered_packet = <<net.captured[1]>>
        \* nothing else delivers, and nothing else returns
        /\ net.phase \notin {"nat", "nat_y"} =>
              /\ net'.delivered = net.delivered
              /\ net'.result = <<>>
        /\ net.phase = "nat" => net'.delivered = net.delivered /\ net'.result = <<>>

\* C37: in part 2 the NAT sends to computer 0 only after idle_threshold
\* iterations in a row in which no packet was forwarded between computers and
\* every input queue was found empty, the look consuming nothing; it sends the
\* x and y of the packet for address 255 captured last, then empties its
\* buffer and resets the idle counter; and the function returns y only when
\* this delivery and the one before carry the same y.
C37_NatDelivers == [][C37_Step]_vars

\* Part 2 has returned 21 at the third delivery, the first having carried 22
\* and the second 21.
C37_Witness ==
    /\ net.part = 2
    /\ fault = "none"
    /\ net.phase = "returned"
    /\ net.result = <<21>>
    /\ net.delivered = <<[dest_id |-> 255, x |-> 12, y |-> 22],
                         [dest_id |-> 255, x |-> 12, y |-> 21],
                         [dest_id |-> 255, x |-> 12, y |-> 21]>>
    /\ net.quiet >= idle_threshold
    /\ net.idle_counter = idle_threshold
    /\ cpu[1].input_queue = <<12, 21>>

====
